---- MODULE Spec2Model ----
(***************************************************************************)
(* FieldViz: the OCR-to-table reconstruction pipeline of the three OCR     *)
(* components (the calibrated gas-compressor component, the generic table  *)
(* component EnhancedOilFieldOCR and the line-based component OilFieldOCR).*)
(*                                                                         *)
(* Text that comes from the OCR engine is a sequence of one-character      *)
(* strings, so that the regular expressions of the code are modelled by    *)
(* what they match.  Non-ASCII characters of the column table are written  *)
(* in ASCII (Kg/cm2, degC, Sm3/Hr, dP).                                    *)
(* Confidences are integers in thousandths (1000 is 1.0); horizontal and   *)
(* vertical centres are compared doubled, so that halves stay exact.       *)
(***************************************************************************)
EXTENDS Integers, Sequences, FiniteSets, TLC

VARIABLES variant, pc, ocrData, isProcessing, error, extractedTable,
          extractedData, recognizeCalls, fallbackRan, lastRows, csv

ocrVars == <<variant, pc, ocrData, isProcessing, error, extractedTable,
             extractedData, recognizeCalls, fallbackRan, lastRows, csv>>

\* The Express server: which revision of the server file is running, the
\* request being served, its response, and the export directories on disk.
VARIABLES serverFile, req, res, exportsDir

serverVars == <<serverFile, req, res, exportsDir>>

\* Uploads of the generic table component that overlap: the OCR runs started
\* so far in the order of their requests, the jobs waiting for the OCR worker,
\* and the pages and type of the document last converted.
VARIABLES runs, workerQueue, pdfPages, fileType

uploadVars == <<runs, workerQueue, pdfPages, fileType>>

\* One call of apiUtils.retryApiCall: where it stands, its arguments, the
\* loop counter, the outcomes of the invocations of apiCall so far, the
\* delays it has waited for, and what it returned or threw.
VARIABLES retryPc, maxRetries, baseDelay, attempt, invocations, waits, settled

retryVars == <<retryPc, maxRetries, baseDelay, attempt, invocations, waits,
               settled>>

\* The segmentation preview modal of the gas-compressor component: its state
\* variables, and the request to the server it is waiting for.
VARIABLES showPreviewModal, previewFile, segmentationResult, selectedSegments,
          activeTab, pending

modalVars == <<showPreviewModal, previewFile, segmentationResult,
               selectedSegments, activeTab, pending>>

\* The Python workflows of one export request: where the route handler
\* stands, the selected segments it has still to process, and for every call
\* of runPythonWorkflow its child process, its promise and its timer.
VARIABLES exportPc, segmentsLeft, workflows

workflowVars == <<exportPc, segmentsLeft, workflows>>

vars == <<ocrVars, serverVars, uploadVars, retryVars, modalVars, workflowVars>>

\* what an action of one program leaves alone: the state of the others
outsideOcr == <<serverVars, uploadVars, retryVars, modalVars, workflowVars>>
outsideServer == <<ocrVars, uploadVars, retryVars, modalVars, workflowVars>>
outsideUpload == <<variant, pc, ocrData, extractedData, recognizeCalls,
                   fallbackRan, lastRows, csv, serverVars, retryVars,
                   modalVars, workflowVars>>
outsideRetry == <<ocrVars, serverVars, uploadVars, modalVars, workflowVars>>
outsideModal == <<variant, pc, ocrData, extractedTable, extractedData,
                  recognizeCalls, fallbackRan, lastRows, csv, serverVars,
                  uploadVars, retryVars, workflowVars>>
outsideWorkflow == <<ocrVars, serverVars, uploadVars, retryVars, modalVars>>

NoSegmentation == [isNull |-> TRUE, file |-> "null", segments |-> 0]

NoRequestPending == [kind |-> "none", file |-> "null"]

\* the modal before a file is chosen
ModalAtRest ==
    /\ showPreviewModal = FALSE
    /\ previewFile = "null"
    /\ segmentationResult = NoSegmentation
    /\ selectedSegments = {}
    /\ activeTab = "original"
    /\ pending = NoRequestPending

\* no export has been requested
WorkflowAtRest ==
    /\ exportPc = "idle"
    /\ segmentsLeft = 0
    /\ workflows = <<>>

NoOutcome == [ok |-> FALSE, status |-> 0, message |-> <<>>, value |-> "none"]

\* retryApiCall has not been called
RetryAtRest ==
    /\ retryPc = "idle"
    /\ maxRetries = 0
    /\ baseDelay = 0
    /\ attempt = 0
    /\ invocations = <<>>
    /\ waits = <<>>
    /\ settled = NoOutcome

\* no upload has been requested
UploadAtRest ==
    /\ runs = <<>>
    /\ workerQueue = <<>>
    /\ pdfPages = <<>>
    /\ fileType = "null"

NoToken == [present |-> FALSE, signed |-> FALSE, userId |-> 0]

EmptyBody ==
    [credentials |-> "none", isArray |-> FALSE, wells |-> <<>>,
     selectedSegments |-> <<>>, hasSegmentationResult |-> FALSE]

NoRequest == [method |-> "none", path |-> <<>>, token |-> NoToken,
              body |-> EmptyBody]

NoResponse == [status |-> 0, by |-> "none", line |-> 0, success |-> FALSE,
               wellsProcessed |-> 0]

\* the server before its first request
ServerAtRest ==
    /\ serverFile = "server.js"
    /\ req = NoRequest
    /\ res = NoResponse
    /\ exportsDir = {}

----------------------------------------------------------------------------
(* Characters and the regular expressions of the code.                     *)

Digits == {"0", "1", "2", "3", "4", "5", "6", "7", "8", "9"}

IsDigit(c) == c \in Digits

Abs(n) == IF n < 0 THEN -n ELSE n

Min(a, b) == IF a < b THEN a ELSE b

RECURSIVE TrimLeft(_)
TrimLeft(s) ==
    IF s # <<>> /\ Head(s) \in {" ", "\n"} THEN TrimLeft(Tail(s)) ELSE s

RECURSIVE TrimRight(_)
TrimRight(s) ==
    IF s # <<>> /\ s[Len(s)] \in {" ", "\n"}
    THEN TrimRight(SubSeq(s, 1, Len(s) - 1))
    ELSE s

\* String.prototype.trim
Trim(s) == TrimRight(TrimLeft(s))

\* the index after the longest run of digits that starts at i
RECURSIVE DigitsEnd(_, _)
DigitsEnd(s, i) ==
    IF i <= Len(s) /\ IsDigit(s[i]) THEN DigitsEnd(s, i + 1) ELSE i

\* the index after the match of \d+\.?\d* that starts at the digit s[i]
NumberEnd(s, i) ==
    LET a == DigitsEnd(s, i)
        b == IF a <= Len(s) /\ s[a] = "." THEN a + 1 ELSE a
    IN  DigitsEnd(s, b)

\* s.match(/(\d+\.?\d*)/): the first match, <<>> when there is none
MatchNumber(s) ==
    LET starts == {i \in 1..Len(s) : IsDigit(s[i])}
    IN  IF starts = {} THEN <<>>
        ELSE LET i == CHOOSE j \in starts : \A k \in starts : j <= k
             IN  SubSeq(s, i, NumberEnd(s, i) - 1)

\* s.match(/\d+\.?\d*/g) || []: every match, left to right
RECURSIVE MatchAllNumbers(_, _)
MatchAllNumbers(s, i) ==
    IF i > Len(s) THEN <<>>
    ELSE IF IsDigit(s[i])
         THEN <<SubSeq(s, i, NumberEnd(s, i) - 1)>>
                  \o MatchAllNumbers(s, NumberEnd(s, i))
         ELSE MatchAllNumbers(s, i + 1)

DigitAt(s, i) == i >= 1 /\ i <= Len(s) /\ IsDigit(s[i])

SepAt(s, i) == i >= 1 /\ i <= Len(s) /\ s[i] \in {".", ":"}

\* the length of the match of \d{1,2}[\.:]\d{2} that starts at i, 0 when none
TimeLenAt(s, i) ==
    IF DigitAt(s, i) /\ DigitAt(s, i + 1) /\ SepAt(s, i + 2)
       /\ DigitAt(s, i + 3) /\ DigitAt(s, i + 4)
    THEN 5
    ELSE IF DigitAt(s, i) /\ SepAt(s, i + 1)
            /\ DigitAt(s, i + 2) /\ DigitAt(s, i + 3)
         THEN 4
         ELSE 0

\* /^\d{1,2}[\.:]\d{2}$/.test(s)
timePattern(s) == s # <<>> /\ TimeLenAt(s, 1) = Len(s)

\* /^\d{1,2}$/.test(s)
bareTimePattern(s) ==
    Len(s) \in {1, 2} /\ \A i \in 1..Len(s) : IsDigit(s[i])

\* where s.match(/(\d{1,2}[\.:]\d{2})/) matches: the leftmost start, 0 for none
timeMatchStart(s) ==
    LET starts == {i \in 1..Len(s) : TimeLenAt(s, i) > 0}
    IN  IF starts = {} THEN 0
        ELSE CHOOSE j \in starts : \A k \in starts : j <= k

\* s.match(/(\d{1,2}[\.:]\d{2})/): the match, <<>> when there is none
timeMatch(s) ==
    LET i == timeMatchStart(s)
    IN  IF i = 0 THEN <<>> ELSE SubSeq(s, i, i + TimeLenAt(s, i) - 1)

\* s.replace(/[^\d.,]/g, '')
cleanedText(s) == SelectSeq(s, LAMBDA c : c \in Digits \cup {".", ","})

RECURSIVE StripLeadingZeros(_)
StripLeadingZeros(s) ==
    IF Len(s) > 1 /\ Head(s) = "0" THEN StripLeadingZeros(Tail(s)) ELSE s

RECURSIVE StripTrailingZeros(_)
StripTrailingZeros(s) ==
    IF s # <<>> /\ s[Len(s)] = "0"
    THEN StripTrailingZeros(SubSeq(s, 1, Len(s) - 1))
    ELSE s

\* parseFloat(num).toString() for num matching \d+\.?\d* (short enough to be
\* printed without an exponent): "007" is "7", "3.50" is "3.5", "5." is "5"
NumToString(num) ==
    LET a     == DigitsEnd(num, 1)
        whole == StripLeadingZeros(SubSeq(num, 1, a - 1))
        frac  == StripTrailingZeros(SubSeq(num, a + 1, Len(num)))
    IN  IF frac = <<>> THEN whole ELSE whole \o <<".">> \o frac

\* !isNaN(value) && value >= 0 for value = parseFloat(num): a text that
\* starts with a digit parses to a number that is not negative
IsValidValue(num) == num # <<>> /\ IsDigit(num[1])

\* s.includes(':')
HasColon(s) == \E i \in 1..Len(s) : s[i] = ":"

RECURSIVE IntToChars(_)
IntToChars(n) ==
    LET d == <<"0", "1", "2", "3", "4", "5", "6", "7", "8", "9">>[(n % 10) + 1]
    IN  IF n < 10 THEN <<d>> ELSE IntToChars(n \div 10) \o <<d>>

\* text.split('\n')
RECURSIVE SplitLines(_)
SplitLines(s) ==
    LET breaks == {i \in 1..Len(s) : s[i] = "\n"}
    IN  IF breaks = {} THEN <<s>>
        ELSE LET i == CHOOSE j \in breaks : \A k \in breaks : j <= k
             IN  <<SubSeq(s, 1, i - 1)>> \o SplitLines(SubSeq(s, i + 1, Len(s)))

----------------------------------------------------------------------------
(* The calibrated gas-compressor component.                                *)

GAS_COMPRESSOR_COLUMNS == <<
    [id |-> "time", mainHeader |-> "Time", subHeader |-> "hrs", unit |-> "hrs",
     expectedXPosition |-> 50, tolerance |-> 25],
    [id |-> "frame_lube_press", mainHeader |-> "Frame Lube Oil", subHeader |-> "Press", unit |-> "Kg/cm2",
     expectedXPosition |-> 110, tolerance |-> 20],
    [id |-> "frame_lube_temp", mainHeader |-> "Frame Lube Oil", subHeader |-> "Temp", unit |-> "degC",
     expectedXPosition |-> 150, tolerance |-> 20],
    [id |-> "oil_filter_dp", mainHeader |-> "Frame Lube Oil", subHeader |-> "Oil Filter dP", unit |-> "",
     expectedXPosition |-> 190, tolerance |-> 20],
    [id |-> "frame_lube_level", mainHeader |-> "Frame Lube Oil", subHeader |-> "Level", unit |-> "%",
     expectedXPosition |-> 230, tolerance |-> 20],
    [id |-> "cw_out_temp", mainHeader |-> "Frame Bearing Temp", subHeader |-> "CW Out Temp", unit |-> "degC",
     expectedXPosition |-> 270, tolerance |-> 20],
    [id |-> "brg_1", mainHeader |-> "Frame Bearing Temp", subHeader |-> "BRG #1", unit |-> "degC",
     expectedXPosition |-> 310, tolerance |-> 20],
    [id |-> "brg_2", mainHeader |-> "Frame Bearing Temp", subHeader |-> "BRG #2", unit |-> "degC",
     expectedXPosition |-> 350, tolerance |-> 20],
    [id |-> "brg_3", mainHeader |-> "Frame Bearing Temp", subHeader |-> "BRG #3", unit |-> "degC",
     expectedXPosition |-> 390, tolerance |-> 20],
    [id |-> "brg_4", mainHeader |-> "Frame Bearing Temp", subHeader |-> "BRG #4", unit |-> "degC",
     expectedXPosition |-> 430, tolerance |-> 20],
    [id |-> "stage1_suction_press", mainHeader |-> "1st Stage Cylinder", subHeader |-> "Suction Press", unit |-> "Kg/cm2",
     expectedXPosition |-> 470, tolerance |-> 20],
    [id |-> "stage1_suction_temp", mainHeader |-> "1st Stage Cylinder", subHeader |-> "Suction Temp", unit |-> "degC",
     expectedXPosition |-> 510, tolerance |-> 20],
    [id |-> "stage1_discharge_press", mainHeader |-> "1st Stage Cylinder", subHeader |-> "Discharge Press", unit |-> "Kg/cm2",
     expectedXPosition |-> 550, tolerance |-> 20],
    [id |-> "stage1_discharge_temp", mainHeader |-> "1st Stage Cylinder", subHeader |-> "Discharge Temp", unit |-> "degC",
     expectedXPosition |-> 590, tolerance |-> 20],
    [id |-> "stage2_suction_press", mainHeader |-> "2nd Stage Cylinder", subHeader |-> "Suction Press", unit |-> "Kg/cm2",
     expectedXPosition |-> 630, tolerance |-> 20],
    [id |-> "stage2_suction_temp", mainHeader |-> "2nd Stage Cylinder", subHeader |-> "Suction Temp", unit |-> "degC",
     expectedXPosition |-> 670, tolerance |-> 20],
    [id |-> "stage2_discharge_press", mainHeader |-> "2nd Stage Cylinder", subHeader |-> "Discharge Press", unit |-> "Kg/cm2",
     expectedXPosition |-> 710, tolerance |-> 20],
    [id |-> "stage2_discharge_temp", mainHeader |-> "2nd Stage Cylinder", subHeader |-> "Discharge Temp", unit |-> "degC",
     expectedXPosition |-> 750, tolerance |-> 20],
    [id |-> "aftercooler_lubricator", mainHeader |-> "After Cooler Separator", subHeader |-> "Lubricator", unit |-> "",
     expectedXPosition |-> 790, tolerance |-> 20],
    [id |-> "aftercooler_pressure", mainHeader |-> "After Cooler Separator", subHeader |-> "Pressure", unit |-> "Kg/cm2",
     expectedXPosition |-> 830, tolerance |-> 20],
    [id |-> "aftercooler_temp", mainHeader |-> "After Cooler Separator", subHeader |-> "Temp", unit |-> "degC",
     expectedXPosition |-> 870, tolerance |-> 20],
    [id |-> "aftercooler_operating", mainHeader |-> "After Cooler Separator", subHeader |-> "Operating", unit |-> "",
     expectedXPosition |-> 910, tolerance |-> 20],
    [id |-> "cooling_level", mainHeader |-> "Cooling Water", subHeader |-> "Level", unit |-> "%",
     expectedXPosition |-> 950, tolerance |-> 20],
    [id |-> "cooling_press", mainHeader |-> "Cooling Water", subHeader |-> "Press", unit |-> "Kg/cm2",
     expectedXPosition |-> 990, tolerance |-> 20],
    [id |-> "cooling_temp", mainHeader |-> "Cooling Water", subHeader |-> "Temp", unit |-> "degC",
     expectedXPosition |-> 1030, tolerance |-> 20],
    [id |-> "motor_amp", mainHeader |-> "Cooling Water", subHeader |-> "Motor Amp", unit |-> "A",
     expectedXPosition |-> 1070, tolerance |-> 20],
    [id |-> "cyl_cw_1", mainHeader |-> "Cylinder CW Out Temp", subHeader |-> "Cyl #1", unit |-> "degC",
     expectedXPosition |-> 1110, tolerance |-> 20],
    [id |-> "cyl_cw_2", mainHeader |-> "Cylinder CW Out Temp", subHeader |-> "Cyl #2", unit |-> "degC",
     expectedXPosition |-> 1150, tolerance |-> 20],
    [id |-> "cyl_cw_3", mainHeader |-> "Cylinder CW Out Temp", subHeader |-> "Cyl #3", unit |-> "degC",
     expectedXPosition |-> 1190, tolerance |-> 20],
    [id |-> "cyl_cw_4", mainHeader |-> "Cylinder CW Out Temp", subHeader |-> "Cyl #4", unit |-> "degC",
     expectedXPosition |-> 1230, tolerance |-> 20],
    [id |-> "control_valve_pos", mainHeader |-> "Control Valve Position", subHeader |-> "%", unit |-> "%",
     expectedXPosition |-> 1270, tolerance |-> 20],
    [id |-> "engine_speed", mainHeader |-> "Engine Speed", subHeader |-> "RPM", unit |-> "RPM",
     expectedXPosition |-> 1310, tolerance |-> 20],
    [id |-> "engine_load", mainHeader |-> "Engine Load", subHeader |-> "%", unit |-> "%",
     expectedXPosition |-> 1350, tolerance |-> 20],
    [id |-> "instrument_air", mainHeader |-> "Instrument Air Pressure", subHeader |-> "Press", unit |-> "Kg/cm2",
     expectedXPosition |-> 1390, tolerance |-> 20],
    [id |-> "gas_flow", mainHeader |-> "Gas Flow", subHeader |-> "Sm3/Hr", unit |-> "Sm3/Hr",
     expectedXPosition |-> 1450, tolerance |-> 30]
>>


\* const rowTolerance = 25 of the calibrated extractor
compressorRowTolerance == 25

\* "Only add rows with meaningful data (at least 5 parameters)"
minimumParameters == 5

\* the minimum of the fallback parser: Object.keys(parameters).length >= 3
fallbackMinimum == 3

Indexes(seq) == [i \in 1..Len(seq) |-> i]

FullParamName(col) == col.mainHeader \o " - " \o col.subHeader

\* a column search that takes the last column within tolerance
findColumnLast(word) ==
    LET hits == {c \in 1..Len(GAS_COMPRESSOR_COLUMNS) :
                    Abs(word.bbox.x0 + word.bbox.x1
                        - 2 * GAS_COMPRESSOR_COLUMNS[c].expectedXPosition)
                      <= 2 * GAS_COMPRESSOR_COLUMNS[c].tolerance}
    IN  IF hits = {} THEN 0
        ELSE CHOOSE c \in hits : \A d \in hits : c >= d

\* GAS_COMPRESSOR_COLUMNS.find(col =>
\*     Math.abs(wordX - col.expectedXPosition) <= col.tolerance)
\* with wordX = (x0 + x1) / 2: the index of the first such column, 0 for none
findColumn(word) ==
    LET hits == {c \in 1..Len(GAS_COMPRESSOR_COLUMNS) :
                    Abs(word.bbox.x0 + word.bbox.x1
                        - 2 * GAS_COMPRESSOR_COLUMNS[c].expectedXPosition)
                      <= 2 * GAS_COMPRESSOR_COLUMNS[c].tolerance}
    IN  IF hits = {} THEN 0
        ELSE CHOOSE c \in hits : \A d \in hits : c <= d

\* parameters[name] = entry: an object keeps the place of a key it has
putParameter(parameters, entry) ==
    IF \E i \in 1..Len(parameters) : parameters[i].name = entry.name
    THEN [i \in 1..Len(parameters) |->
             IF parameters[i].name = entry.name THEN entry ELSE parameters[i]]
    ELSE Append(parameters, entry)

\* (word.confidence || dflt) * factor, in thousandths: dflt in thousandths,
\* the factor in tenths; word.confidence is the number the OCR engine gave
penalizedConfidence(word, dflt, tenths) ==
    ((IF word.confidence = 0 THEN dflt ELSE word.confidence * 1000) * tenths)
        \div 10

\* a rowWords.forEach body that omits the tokens with no numeric value
mapWordNumericOnly(acc, word, rowIndex) ==
    LET c == findColumn(word)
        numericMatch == MatchNumber(cleanedText(Trim(word.text)))
    IN  IF c = 0 \/ numericMatch = <<>> \/ ~IsValidValue(numericMatch) THEN acc
        ELSE [parameters |->
                 putParameter(acc.parameters,
                     [name |-> FullParamName(GAS_COMPRESSOR_COLUMNS[c]),
                      value |-> NumToString(numericMatch),
                      unit |-> GAS_COMPRESSOR_COLUMNS[c].unit,
                      confidence |-> penalizedConfidence(word, 850, 9),
                      cellPosition |-> [row |-> rowIndex,
                                        col |-> acc.parametersFound],
                      source |-> word]),
              parametersFound |-> acc.parametersFound + 1]

\* the body of rowWords.forEach: acc is [parameters, parametersFound]
mapWord(acc, word, rowIndex) ==
    LET c == findColumn(word)
    IN  IF c = 0 THEN acc
        ELSE LET column       == GAS_COMPRESSOR_COLUMNS[c]
                 numericMatch == MatchNumber(cleanedText(Trim(word.text)))
             IN  IF numericMatch # <<>>
                 THEN IF IsValidValue(numericMatch)
                      THEN [parameters |->
                               putParameter(acc.parameters,
                                   [name |-> FullParamName(column),
                                    value |-> NumToString(numericMatch),
                                    unit |-> column.unit,
                                    confidence |-> penalizedConfidence(word, 850, 9),
                                    cellPosition |-> [row |-> rowIndex,
                                                      col |-> acc.parametersFound],
                                    source |-> word]),
                            parametersFound |-> acc.parametersFound + 1]
                      ELSE acc
                 ELSE IF Len(Trim(word.text)) > 0
                      THEN [parameters |->
                               putParameter(acc.parameters,
                                   [name |-> FullParamName(column),
                                    value |-> Trim(word.text),
                                    unit |-> column.unit,
                                    confidence |-> penalizedConfidence(word, 700, 8),
                                    cellPosition |-> [row |-> rowIndex,
                                                      col |-> acc.parametersFound],
                                    source |-> word]),
                            parametersFound |-> acc.parametersFound + 1]
                      ELSE acc

RECURSIVE mapRowWords(_, _, _, _)
mapRowWords(acc, words, rowWords, rowIndex) ==
    IF rowWords = <<>> THEN acc
    ELSE mapRowWords(mapWord(acc, words[Head(rowWords)], rowIndex),
                     words, Tail(rowWords), rowIndex)

\* words.filter(word => word !== timeWord &&
\*     Math.abs(wordY - timeY) <= rowTolerance), as indexes into words
rowWordsOf(words, t) ==
    SelectSeq(Indexes(words), LAMBDA j :
        /\ j # t
        /\ Abs((words[j].bbox.y0 + words[j].bbox.y1)
               - (words[t].bbox.y0 + words[t].bbox.y1))
             <= 2 * compressorRowTolerance)

\* the words that anchor a row: the time words, or when there is none the
\* bare one- or two-digit numbers (as indexes into words)
timeWords(words) ==
    LET times == SelectSeq(Indexes(words),
                     LAMBDA k : timePattern(Trim(words[k].text)))
    IN  IF times # <<>> THEN times
        ELSE SelectSeq(Indexes(words),
                 LAMBDA k : bareTimePattern(Trim(words[k].text)))

\* timeValue.includes(':') ? timeValue : `${timeValue}:00`
formattedTime(timeValue) ==
    IF HasColon(timeValue) THEN timeValue ELSE timeValue \o <<":", "0", "0">>

\* the row the anchor words[t] yields: <<reading>>, or <<>> when skipped
compressorRow(words, t, rowIndex) ==
    LET acc == mapRowWords([parameters |-> <<>>, parametersFound |-> 0],
                           words, rowWordsOf(words, t), rowIndex)
    IN  IF acc.parametersFound >= minimumParameters
        THEN <<[id |-> <<"time-row", rowIndex>>,
                timeReading |-> formattedTime(Trim(words[t].text)),
                date |-> "today",
                parameters |-> acc.parameters,
                isVerified |-> FALSE]>>
        ELSE <<>>

RECURSIVE compressorRows(_, _, _)
compressorRows(words, anchors, rowIndex) ==
    IF anchors = <<>> THEN <<>>
    ELSE compressorRow(words, Head(anchors), rowIndex)
             \o compressorRows(words, Tail(anchors), rowIndex + 1)

\* ocrData.words || []
wordsOf(ocr) == IF ocr.hasWords THEN ocr.words ELSE <<>>

specializedGasCompressorExtraction(ocr) ==
    LET words == wordsOf(ocr)
    IN  IF Len(words) = 0 THEN <<>>
        ELSE compressorRows(words, timeWords(words), 0)

\* dataNumbers.forEach of the fallback parser
RECURSIVE fallbackParameters(_, _, _, _)
fallbackParameters(parameters, dataNumbers, i, idx) ==
    IF i >= Len(dataNumbers) THEN parameters
    ELSE LET num == dataNumbers[i + 1]
             hasColumn == i + 2 <= Len(GAS_COMPRESSOR_COLUMNS)
             paramName == IF hasColumn
                          THEN FullParamName(GAS_COMPRESSOR_COLUMNS[i + 2])
                          ELSE "Parameter " \o ToString(i + 1)
             next == IF IsValidValue(num)
                     THEN putParameter(parameters,
                              [name |-> paramName,
                               value |-> NumToString(num),
                               unit |-> IF hasColumn
                                        THEN GAS_COMPRESSOR_COLUMNS[i + 2].unit
                                        ELSE "",
                               confidence |-> 600,
                               cellPosition |-> [row |-> idx, col |-> i],
                               source |-> num])
                     ELSE parameters
         IN  fallbackParameters(next, dataNumbers, i + 1, idx)

\* a fallback parser that keeps the first number of a timed line
dataNumbersOfNoSkip(tm, numbers) == numbers

\* "Skip time value when extracting parameters":
\* timeMatch ? numbers.slice(1) : numbers
dataNumbersOf(tm, numbers) == IF tm # <<>> THEN Tail(numbers) ELSE numbers

\* the body of lines.forEach of the fallback parser: <<reading>> or <<>>
fallbackLine(line, idx, reportDate) ==
    LET trimmedLine == Trim(line)
        tm          == timeMatch(trimmedLine)
        numbers     == MatchAllNumbers(trimmedLine, 1)
    IN  IF Len(trimmedLine) < 5 THEN <<>>
        ELSE IF (tm # <<>> /\ Len(numbers) >= 3) \/ Len(numbers) >= 8
             THEN LET timeIdentifier ==
                          IF tm # <<>> THEN tm
                          ELSE <<"R", "o", "w", "-">> \o IntToChars(idx + 1)
                      dataNumbers == dataNumbersOf(tm, numbers)
                      parameters  == fallbackParameters(<<>>, dataNumbers, 0, idx)
                  IN  IF Len(parameters) >= fallbackMinimum
                      THEN <<[id |-> <<"fallback", idx>>,
                              timeReading |-> timeIdentifier,
                              date |-> reportDate,
                              parameters |-> parameters,
                              isVerified |-> FALSE]>>
                      ELSE <<>>
             ELSE <<>>

RECURSIVE fallbackLines(_, _, _)
fallbackLines(lines, idx, reportDate) ==
    IF idx >= Len(lines) THEN <<>>
    ELSE fallbackLine(lines[idx + 1], idx, reportDate)
             \o fallbackLines(lines, idx + 1, reportDate)

\* (ocrData.text || '').split('\n').filter(line => line.trim())
textLines(ocr) == SelectSeq(SplitLines(ocr.text), LAMBDA l : Trim(l) # <<>>)

enhancedFallbackParsing(ocr, reportDate) ==
    [isNull   |-> FALSE,
     headers  |-> <<"Time", "Gas Compressor Parameters">>,
     wellData |-> fallbackLines(textLines(ocr), 0, reportDate)]

compressorHeaders ==
    <<"Time (hrs)">> \o
    [i \in 1..(Len(GAS_COMPRESSOR_COLUMNS) - 1) |->
        FullParamName(GAS_COMPRESSOR_COLUMNS[i + 1]) \o " ("
            \o GAS_COMPRESSOR_COLUMNS[i + 1].unit \o ")"]

\* a parseTableData that does not return the readings of the calibrated
\* extractor and goes on to the fallback parser
compressorParseTableDataNoReturn(ocr) ==
    [table |-> enhancedFallbackParsing(ocr, "reportDate"), fallback |-> TRUE]

\* parseTableData of the calibrated component: the table it returns and
\* whether the fallback parser was run to get it
compressorParseTableData(ocr) ==
    LET compressorResults == specializedGasCompressorExtraction(ocr)
    IN  IF wordsOf(ocr) # <<>> /\ Len(compressorResults) > 0
        THEN [table |-> [isNull |-> FALSE, headers |-> compressorHeaders,
                         wellData |-> compressorResults],
              fallback |-> FALSE]
        ELSE [table |-> enhancedFallbackParsing(ocr, "reportDate"),
              fallback |-> TRUE]

----------------------------------------------------------------------------
(* The generic table component (EnhancedOilFieldOCR).                      *)

\* const rowTolerance = 20 of the generic table parser
rowTolerance == 20

LowerLetters == {"a", "b", "c", "d", "e", "f", "g", "h", "i", "j", "k", "l", "m", "n", "o", "p", "q", "r", "s", "t", "u", "v", "w", "x", "y", "z"}

UpperLetters == {"A", "B", "C", "D", "E", "F", "G", "H", "I", "J", "K", "L", "M", "N", "O", "P", "Q", "R", "S", "T", "U", "V", "W", "X", "Y", "Z"}

LowerSeq == <<"a", "b", "c", "d", "e", "f", "g", "h", "i", "j", "k", "l", "m", "n", "o", "p", "q", "r", "s", "t", "u", "v", "w", "x", "y", "z">>

UpperSeq == <<"A", "B", "C", "D", "E", "F", "G", "H", "I", "J", "K", "L", "M", "N", "O", "P", "Q", "R", "S", "T", "U", "V", "W", "X", "Y", "Z">>

\* one character of String.prototype.toLowerCase
LowerChar(c) ==
    IF c \in UpperLetters
    THEN LowerSeq[CHOOSE i \in 1..Len(UpperSeq) : UpperSeq[i] = c]
    ELSE c

toLowerCase(s) == [i \in 1..Len(s) |-> LowerChar(s[i])]

\* hay.includes(needle)
Includes(hay, needle) ==
    \E i \in 1..(Len(hay) - Len(needle) + 1) :
        SubSeq(hay, i, i + Len(needle) - 1) = needle

\* PARAMETER_MAPPING in the order of its keys, with the first unit of each
\* entry (the only one the code reads)
PARAMETER_MAPPING == <<
    [key |-> <<"o", "i", "l">>,
     fullName |-> <<"O", "i", "l", " ", "P", "r", "o", "d", "u", "c", "t", "i", "o", "n">>,
     unit |-> <<"B", "B", "L">>],
    [key |-> <<"g", "a", "s">>,
     fullName |-> <<"G", "a", "s", " ", "P", "r", "o", "d", "u", "c", "t", "i", "o", "n">>,
     unit |-> <<"M", "C", "F">>],
    [key |-> <<"w", "a", "t", "e", "r">>,
     fullName |-> <<"W", "a", "t", "e", "r", " ", "P", "r", "o", "d", "u", "c", "t", "i", "o", "n">>,
     unit |-> <<"B", "B", "L">>],
    [key |-> <<"p", "r", "e", "s", "s", "u", "r", "e">>,
     fullName |-> <<"P", "r", "e", "s", "s", "u", "r", "e">>,
     unit |-> <<"P", "S", "I">>],
    [key |-> <<"t", "e", "m", "p">>,
     fullName |-> <<"T", "e", "m", "p", "e", "r", "a", "t", "u", "r", "e">>,
     unit |-> <<"d", "e", "g", "F">>],
    [key |-> <<"c", "u", "t">>,
     fullName |-> <<"W", "a", "t", "e", "r", " ", "C", "u", "t">>,
     unit |-> <<"%">>],
    [key |-> <<"r", "a", "t", "e">>,
     fullName |-> <<"F", "l", "o", "w", " ", "R", "a", "t", "e">>,
     unit |-> <<"B", "P", "D">>],
    [key |-> <<"c", "h", "o", "k", "e">>,
     fullName |-> <<"C", "h", "o", "k", "e", " ", "S", "i", "z", "e">>,
     unit |-> <<"/", "6", "4">>],
    [key |-> <<"g", "o", "r">>,
     fullName |-> <<"G", "a", "s", " ", "O", "i", "l", " ", "R", "a", "t", "i", "o">>,
     unit |-> <<"S", "C", "F", "/", "B", "B", "L">>]
>>

\* Array.prototype.sort with the comparator a.bbox[field] - b.bbox[field]
\* (words.sort((a, b) => a.bbox.y0 - b.bbox.y0), currentRow.sort(... x0 ...)):
\* the sort is stable
RECURSIVE InsertSorted(_, _, _)
InsertSorted(sorted, e, field) ==
    IF sorted = <<>> THEN <<e>>
    ELSE IF sorted[Len(sorted)].bbox[field] <= e.bbox[field]
         THEN Append(sorted, e)
         ELSE Append(InsertSorted(SubSeq(sorted, 1, Len(sorted) - 1), e, field),
                     sorted[Len(sorted)])

RECURSIVE StableSort(_, _)
StableSort(seq, field) ==
    IF seq = <<>> THEN <<>>
    ELSE InsertSorted(StableSort(SubSeq(seq, 1, Len(seq) - 1), field),
                      seq[Len(seq)], field)

\* a clusterer that also joins a word exactly rowTolerance below the last
clusterWordInclusive(acc, word) ==
    IF acc.lastY = -1 \/ Abs(word.bbox.y0 - acc.lastY) <= rowTolerance
    THEN [rows |-> acc.rows, currentRow |-> Append(acc.currentRow, word),
          lastY |-> word.bbox.y0]
    ELSE [rows |-> IF Len(acc.currentRow) > 0
                   THEN Append(acc.rows, StableSort(acc.currentRow, "x0"))
                   ELSE acc.rows,
          currentRow |-> <<word>>,
          lastY |-> word.bbox.y0]

\* the body of sortedWords.forEach: acc is [rows, currentRow, lastY]
clusterWord(acc, word) ==
    IF acc.lastY = -1 \/ Abs(word.bbox.y0 - acc.lastY) < rowTolerance
    THEN [rows |-> acc.rows, currentRow |-> Append(acc.currentRow, word),
          lastY |-> word.bbox.y0]
    ELSE [rows |-> IF Len(acc.currentRow) > 0
                   THEN Append(acc.rows, StableSort(acc.currentRow, "x0"))
                   ELSE acc.rows,
          currentRow |-> <<word>>,
          lastY |-> word.bbox.y0]

RECURSIVE clusterWords(_, _)
clusterWords(acc, sortedWords) ==
    IF sortedWords = <<>> THEN acc
    ELSE clusterWords(clusterWord(acc, Head(sortedWords)), Tail(sortedWords))

\* a row clusterer that walks the words in the order given, unsorted
clusterRowsUnsorted(words) ==
    LET acc == clusterWords([rows |-> <<>>, currentRow |-> <<>>, lastY |-> -1],
                            words)
    IN  IF Len(acc.currentRow) > 0
        THEN Append(acc.rows, StableSort(acc.currentRow, "x0"))
        ELSE acc.rows

\* the row clusterer of parseTableData: the rows of a word list
clusterRows(words) ==
    LET acc == clusterWords([rows |-> <<>>, currentRow |-> <<>>, lastY |-> -1],
                            StableSort(words, "y0"))
    IN  IF Len(acc.currentRow) > 0
        THEN Append(acc.rows, StableSort(acc.currentRow, "x0"))
        ELSE acc.rows

WhiteSpace == {" ", "\n"}

\* [A-Za-z°%\/] (the degree sign is written "deg" in this model's texts)
UnitChars == LowerLetters \cup UpperLetters \cup {"%", "/"}

RECURSIVE SkipWhile(_, _, _)
SkipWhile(s, i, set) ==
    IF i <= Len(s) /\ s[i] \in set THEN SkipWhile(s, i + 1, set) ELSE i

\* whether /(\d+\.?\d*)\s*([A-Za-z°%\/]+)/ matches starting at the digit s[i]
UnitPatternAt(s, i) ==
    /\ IsDigit(s[i])
    /\ LET j == SkipWhile(s, NumberEnd(s, i), WhiteSpace)
       IN  j <= Len(s) /\ s[j] \in UnitChars

removeCommas(s) == SelectSeq(s, LAMBDA c : c # ",")

extractValueAndUnit(text) ==
    IF text = <<>> THEN [value |-> <<>>, unit |-> <<>>]
    ELSE LET starts == {i \in 1..Len(text) : UnitPatternAt(text, i)}
         IN  IF starts # {}
             THEN LET i == CHOOSE a \in starts : \A b \in starts : a <= b
                      e == NumberEnd(text, i)
                      j == SkipWhile(text, e, WhiteSpace)
                  IN  [value |-> removeCommas(SubSeq(text, i, e - 1)),
                       unit  |-> SubSeq(text, j, SkipWhile(text, j, UnitChars) - 1)]
             ELSE IF MatchNumber(text) # <<>>
                  THEN [value |-> removeCommas(MatchNumber(text)), unit |-> <<>>]
                  ELSE [value |-> Trim(text), unit |-> <<>>]

\* header.toLowerCase().replace(/[^a-z0-9\s]/g, '')
cleanedHeader(header) ==
    SelectSeq(toLowerCase(header),
              LAMBDA c : c \in LowerLetters \cup Digits \cup WhiteSpace)

\* the first entry of PARAMETER_MAPPING whose key s includes, 0 for none
mappingEntry(s) ==
    LET hits == {k \in 1..Len(PARAMETER_MAPPING) :
                    Includes(s, PARAMETER_MAPPING[k].key)}
    IN  IF hits = {} THEN 0 ELSE CHOOSE k \in hits : \A m \in hits : k <= m

normalizeParameterName(header) ==
    LET k == mappingEntry(cleanedHeader(header))
    IN  IF k # 0 THEN PARAMETER_MAPPING[k].fullName ELSE Trim(header)

detectUnit(parameterName) ==
    LET k == mappingEntry(toLowerCase(parameterName))
    IN  IF k # 0 THEN PARAMETER_MAPPING[k].unit ELSE <<>>

\* name.replace(/[^a-zA-Z0-9\-]/g, '').trim() || 'Unknown Well'
cleanWellName(name) ==
    LET kept == Trim(SelectSeq(name, LAMBDA c :
                    c \in LowerLetters \cup UpperLetters \cup Digits \cup {"-"}))
    IN  IF kept # <<>> THEN kept ELSE <<"U", "n", "k", "n", "o", "w", "n", " ", "W", "e", "l", "l">>

\* headers[index] = word.text || `Column ${index + 1}`
tableHeaders(rows) ==
    IF Len(rows) = 0 THEN <<>>
    ELSE [i \in 1..Len(rows[1]) |->
             IF rows[1][i].text # <<>> THEN rows[1][i].text
             ELSE <<"C", "o", "l", "u", "m", "n", " ">> \o IntToChars(i)]

\* the TableCell of a word: confidence is word.confidence / 100 || 0
tableCell(word, rowIndex, colIndex) ==
    [text |-> word.text,
     confidence |-> word.confidence * 10,
     position |-> [x |-> word.bbox.x0, y |-> word.bbox.y0,
                   width |-> word.bbox.x1 - word.bbox.x0,
                   height |-> word.bbox.y1 - word.bbox.y0],
     row |-> rowIndex, col |-> colIndex]

\* rows.slice(1) as rows of TableCells
tableDataRows(rows) ==
    [r \in 1..(Len(rows) - 1) |->
        [c \in 1..Len(rows[r + 1]) |-> tableCell(rows[r + 1][c], r - 1, c - 1)]]

\* row.forEach of parseWellDataFromTable, from the cell at colIndex on
RECURSIVE wellParameters(_, _, _, _, _)
wellParameters(parameters, row, colIndex, rowIndex, headers) ==
    IF colIndex >= Len(row) THEN parameters
    ELSE LET cell == row[colIndex + 1]
             headerName == IF colIndex < Len(headers) /\ headers[colIndex + 1] # <<>>
                           THEN headers[colIndex + 1]
                           ELSE <<"P", "a", "r", "a", "m", "e", "t", "e", "r", " ">> \o IntToChars(colIndex)
             parameterKey == normalizeParameterName(headerName)
             vu == extractValueAndUnit(cell.text)
             next == IF colIndex # 0 /\ vu.value # <<>>
                     THEN putParameter(parameters,
                              [name |-> parameterKey,
                               value |-> vu.value,
                               unit |-> IF vu.unit # <<>> THEN vu.unit
                                        ELSE detectUnit(parameterKey),
                               confidence |-> cell.confidence,
                               cellPosition |-> [row |-> rowIndex, col |-> colIndex],
                               source |-> cell])
                     ELSE parameters
         IN  wellParameters(next, row, colIndex + 1, rowIndex, headers)

\* the body of rows.forEach of parseWellDataFromTable: <<reading>> or <<>>
wellRow(row, rowIndex, headers, reportDate) ==
    IF Len(row) = 0 THEN <<>>
    ELSE LET wellName == IF row[1].text # <<>> THEN row[1].text
                         ELSE <<"W", "e", "l", "l", "-">> \o IntToChars(rowIndex + 1)
             parameters == wellParameters(<<>>, row, 0, rowIndex, headers)
         IN  IF Len(wellName) < 2 THEN <<>>
             ELSE IF Len(parameters) > 0
                  THEN <<[id |-> <<"well", rowIndex>>,
                          wellName |-> cleanWellName(wellName),
                          date |-> reportDate,
                          parameters |-> parameters,
                          isVerified |-> FALSE]>>
                  ELSE <<>>

RECURSIVE wellRows(_, _, _, _)
wellRows(rows, rowIndex, headers, reportDate) ==
    IF rowIndex >= Len(rows) THEN <<>>
    ELSE wellRow(rows[rowIndex + 1], rowIndex, headers, reportDate)
             \o wellRows(rows, rowIndex + 1, headers, reportDate)

parseWellDataFromTable(rows, headers, reportDate) ==
    wellRows(rows, 0, headers, reportDate)

\* parseTableData of the generic component: the table it returns, whether a
\* fallback parser was run (it has none) and the rows the clusterer made
genericParseTableData(ocr) ==
    LET rows    == clusterRows(wordsOf(ocr))
        headers == tableHeaders(rows)
    IN  [table |-> [isNull |-> FALSE, headers |-> headers,
                    wellData |-> parseWellDataFromTable(tableDataRows(rows),
                                                        headers, "reportDate")],
         fallback |-> FALSE,
         rows |-> rows]

----------------------------------------------------------------------------
(* The line-based component (OilFieldOCR).                                 *)

\* FIELD_PARAMETERS in the order of its keys
FIELD_PARAMETERS == <<
    [parameter |-> <<"o", "i", "l", " ", "p", "r", "o", "d", "u", "c", "t", "i", "o", "n">>,
     units |-> <<<<"B", "B", "L">>, <<"b", "b", "l">>, <<"b", "a", "r", "r", "e", "l", "s">>>>],
    [parameter |-> <<"g", "a", "s", " ", "p", "r", "o", "d", "u", "c", "t", "i", "o", "n">>,
     units |-> <<<<"M", "C", "F">>, <<"m", "c", "f">>, <<"M", "S", "C", "F">>, <<"m", "s", "c", "f">>>>],
    [parameter |-> <<"w", "e", "l", "l", "h", "e", "a", "d", " ", "p", "r", "e", "s", "s", "u", "r", "e">>,
     units |-> <<<<"P", "S", "I">>, <<"p", "s", "i">>, <<"P", "S", "I", "G">>, <<"p", "s", "i", "g">>>>],
    [parameter |-> <<"t", "e", "m", "p", "e", "r", "a", "t", "u", "r", "e">>,
     units |-> <<<<"d", "e", "g", "F">>, <<"F">>, <<"d", "e", "g", " ", "F">>, <<"d", "e", "g", "r", "e", "e", "s", " ", "F">>>>],
    [parameter |-> <<"w", "a", "t", "e", "r", " ", "c", "u", "t">>,
     units |-> <<<<"%">>, <<"p", "e", "r", "c", "e", "n", "t">>>>],
    [parameter |-> <<"f", "l", "o", "w", " ", "r", "a", "t", "e">>,
     units |-> <<<<"B", "P", "D">>, <<"b", "p", "d">>, <<"B", "O", "P", "D">>, <<"b", "o", "p", "d">>>>],
    [parameter |-> <<"t", "u", "b", "i", "n", "g", " ", "p", "r", "e", "s", "s", "u", "r", "e">>,
     units |-> <<<<"P", "S", "I">>, <<"p", "s", "i">>, <<"P", "S", "I", "G">>, <<"p", "s", "i", "g">>>>],
    [parameter |-> <<"c", "a", "s", "i", "n", "g", " ", "p", "r", "e", "s", "s", "u", "r", "e">>,
     units |-> <<<<"P", "S", "I">>, <<"p", "s", "i">>, <<"P", "S", "I", "G">>, <<"p", "s", "i", "g">>>>],
    [parameter |-> <<"c", "h", "o", "k", "e", " ", "s", "i", "z", "e">>,
     units |-> <<<<"6", "4", "t", "h", "s">>, <<"/", "6", "4">>, <<"i", "n", "c", "h">>>>]
>>

UpperChar(c) ==
    IF c \in LowerLetters
    THEN UpperSeq[CHOOSE i \in 1..Len(LowerSeq) : LowerSeq[i] = c]
    ELSE c

\* parameter.split(' ')
RECURSIVE SplitWords(_)
SplitWords(s) ==
    LET gaps == {i \in 1..Len(s) : s[i] = " "}
    IN  IF gaps = {} THEN <<s>>
        ELSE LET i == CHOOSE j \in gaps : \A k \in gaps : j <= k
             IN  <<SubSeq(s, 1, i - 1)>> \o SplitWords(SubSeq(s, i + 1, Len(s)))

\* the unit of a line: the first of units the line names, or units[0]
detectedUnit(line, units) ==
    LET hits == {u \in 1..Len(units) :
                    Includes(toLowerCase(line), toLowerCase(units[u]))}
    IN  IF hits = {} THEN units[1]
        ELSE units[CHOOSE u \in hits : \A v \in hits : u <= v]

\* Math.min(ocrResult.confidence / 100 + patternBonus, 1.0), in thousandths
finalConfidence(confidence, exact) ==
    Min(confidence * 10 + (IF exact THEN 200 ELSE 100), 1000)

\* the data point a line yields for one entry of FIELD_PARAMETERS
lineDataPoint(line, index, entry, confidence) ==
    LET cleanLine == toLowerCase(Trim(line))
        exact     == Includes(cleanLine, toLowerCase(entry.parameter))
        partWords == SplitWords(entry.parameter)
        numbers   == MatchAllNumbers(line, 1)
    IN  IF (exact \/ \E w \in 1..Len(partWords) : Includes(cleanLine, partWords[w]))
           /\ Len(numbers) > 0
        THEN <<[id |-> <<entry.parameter, index>>,
                parameter |-> <<UpperChar(Head(entry.parameter))>>
                                  \o Tail(entry.parameter),
                value |-> numbers[Len(numbers)],
                unit |-> detectedUnit(line, entry.units),
                confidence |-> finalConfidence(confidence, exact),
                isEditing |-> FALSE,
                originalText |-> Trim(line)]>>
        ELSE <<>>

RECURSIVE lineDataPoints(_, _, _, _)
lineDataPoints(line, index, p, confidence) ==
    IF p > Len(FIELD_PARAMETERS) THEN <<>>
    ELSE lineDataPoint(line, index, FIELD_PARAMETERS[p], confidence)
             \o lineDataPoints(line, index, p + 1, confidence)

RECURSIVE parseLines(_, _, _)
parseLines(lines, index, confidence) ==
    IF index >= Len(lines) THEN <<>>
    ELSE lineDataPoints(lines[index + 1], index, 1, confidence)
             \o parseLines(lines, index + 1, confidence)

\* parseOilFieldData: ocrResult.confidence is data.confidence || 0
parseOilFieldData(ocr) == parseLines(textLines(ocr), 0, ocr.confidence)

----------------------------------------------------------------------------
(* What the OCR engine may return: { text, confidence, words: [{ text,     *)
(* confidence (0 to 100), bbox }] }.                                       *)

Word(text, confidence, x0, y0, x1, y1) ==
    [text |-> text, confidence |-> confidence,
     bbox |-> [x0 |-> x0, y0 |-> y0, x1 |-> x1, y1 |-> y1]]

\* the words a page may hold, in reading order: a time row at y = 100 whose
\* cells sit in the columns time, Frame Lube Oil - Press (twice: at x = 110
\* and, between two columns, at x = 130), Temp, Oil Filter dP, Level and
\* CW Out Temp, a word right of the last column, a second time word one line
\* below, a word far below, and a blank word of the time row in the column
\* BRG #1
PageWords == <<
    Word(<<"1", "4", ":", "3", "0">>, 90, 40, 100, 70, 115),
    Word(<<"2", ".", "1">>, 90, 100, 102, 120, 116),
    Word(<<"3", ".", "5", "0">>, 50, 120, 100, 140, 115),
    Word(<<"9", "5">>, 90, 150, 101, 175, 117),
    Word(<<"7">>, 100, 180, 100, 200, 115),
    Word(<<"o", "k">>, 0, 220, 100, 240, 115),
    Word(<<"-", "5">>, 90, 260, 100, 280, 115),
    Word(<<"4", "2">>, 90, 1490, 100, 1520, 115),
    Word(<<"1", "5", ".", "0", "0">>, 90, 45, 120, 65, 135),
    Word(<<"8", "8">>, 90, 300, 300, 320, 315),
    Word(<<" ">>, 30, 300, 100, 320, 115)
>>

\* the words a page of the generic component may hold: a header row at
\* y = 50, a data row at y = 100 and a second data row 20 pixels below it
TableWords == <<
    Word(<<"W", "e", "l", "l">>, 95, 40, 50, 80, 65),
    Word(<<"O", "i", "l">>, 90, 100, 52, 130, 66),
    Word(<<"T", "e", "m", "p">>, 90, 150, 50, 190, 65),
    Word(<<"A", "-", "1">>, 90, 40, 100, 70, 115),
    Word(<<"1", "2", "4", "7", "B", "B", "L">>, 80, 100, 102, 140, 116),
    Word(<<"n", "/", "a">>, 60, 150, 101, 175, 117),
    Word(<<"B">>, 70, 40, 120, 50, 135),
    Word(<<"9", "5">>, 0, 100, 121, 120, 136),
    Word(<<"3", "8", "0", "0", "p", "s", "i">>, 100, 150, 122, 190, 137)
>>

\* the words of a second, noisier page of the generic component: a header
\* row at y = 50 and one data row at y = 100 whose well name ends in a
\* full stop, whose oil cell is written with a thousands separator and a
\* unit, whose gas cell was recognized twice at the same place, and whose
\* last cell is blank, under a fourth header that holds a comma
NoisyTableWords == <<
    Word(<<"W", "e", "l", "l">>, 95, 40, 50, 80, 65),
    Word(<<"O", "i", "l">>, 90, 100, 52, 130, 66),
    Word(<<"G", "a", "s">>, 90, 150, 50, 190, 65),
    Word(<<"A", ".">>, 90, 40, 100, 60, 115),
    Word(<<"1", ",", "2", "3", "4", ".", "5", " ", "P", "S", "I">>, 80, 100, 100, 145, 115),
    Word(<<"1", "2">>, 90, 150, 101, 170, 116),
    Word(<<"l", "2">>, 40, 150, 101, 172, 116),
    Word(<<" ">>, 30, 200, 100, 220, 115),
    Word(<<"D", "e", "p", "t", "h", ",", "f", "t">>, 85, 200, 51, 250, 66)
>>

\* the most words of one page
MaxWords == 7

\* the most pieces of one text line
MaxPieces == 4

\* the most numbers of a line of bare numbers
MaxNumbers == 9

SubList(seq, S) ==
    LET kept == SelectSeq(Indexes(seq), LAMBDA i : i \in S)
    IN  [k \in 1..Len(kept) |-> seq[kept[k]]]

SubLists(seq) ==
    {SubList(seq, S) : S \in {T \in SUBSET (1..Len(seq)) :
                                 Cardinality(T) <= MaxWords}}

RECURSIVE Join(_)
Join(pieces) ==
    IF pieces = <<>> THEN <<>>
    ELSE IF Len(pieces) = 1 THEN pieces[1]
         ELSE pieces[1] \o <<" ">> \o Join(Tail(pieces))

\* the pieces of a text line: two time identifiers, two numbers, a word and a
\* negative number
Pieces ==
    {<<"1", "4", ":", "3", "0">>, <<"1", "4", ".", "3", "0">>,
     <<"1", "2", "0", "0">>, <<"2", ".", "5">>, <<"a", "b">>, <<"-", "5">>}

PieceLines == UNION {{Join(f) : f \in [1..n -> Pieces]} : n \in 1..MaxPieces}

NumberLine(n) == Join([i \in 1..n |-> IntToChars(i)])

NumberLines == {NumberLine(n) : n \in 1..MaxNumbers}

\* page texts of one or two lines, the empty text and a blank text
PageTexts ==
    PieceLines \cup NumberLines
        \cup {<<"a", "b">> \o <<"\n">> \o l : l \in NumberLines}
        \cup {<<>>, <<" ">>}

\* the texts of a page that has words
WordPageTexts == {<<>>, <<"1", "4", ":", "3", "0", " ", "2", ".", "1", " ", "9", "5">>, <<"a", "b">>}

\* texts of the kind the line-based component reads
FieldTexts ==
    {<<>>,
     <<"O", "i", "l", " ", "P", "r", "o", "d", "u", "c", "t", "i", "o", "n", " ", "1", "2", "5", "0", " ", "b", "b", "l">>,
     <<"p", "r", "e", "s", "s", "u", "r", "e", " ", "3", "0", "0">>,
     <<"T", "e", "m", "p", " ", "9", "5", " ", "F">> \o <<"\n">> \o <<"w", "a", "t", "e", "r", " ", "c", "u", "t", " ", "1", "2", ".", "5", " ", "%">>,
     <<"n", "o", " ", "d", "a", "t", "a">>}

Confidences == {0, 85, 95}

OCRData(text, confidence, hasWords, words) ==
    [text |-> text, confidence |-> confidence, hasWords |-> hasWords,
     words |-> words]

\* before the OCR engine has answered
NoData == OCRData(<<>>, 0, FALSE, <<>>)

CompressorInputs ==
    {OCRData(t, 90, TRUE, ws) : t \in WordPageTexts, ws \in SubLists(PageWords)}
        \cup {OCRData(t, 90, FALSE, <<>>) : t \in PageTexts}

GenericInputs ==
    {OCRData(t, 90, TRUE, ws) : t \in {<<>>, <<"a", "b">>},
                                ws \in SubLists(TableWords) \cup SubLists(NoisyTableWords)}
        \cup {OCRData(t, 90, FALSE, <<>>) : t \in WordPageTexts}

LineInputs ==
    {OCRData(t, c, TRUE, <<>>) : t \in FieldTexts \cup NumberLines, c \in Confidences}

Inputs(v) ==
    IF v = "line" THEN LineInputs
    ELSE IF v = "generic" THEN GenericInputs ELSE CompressorInputs

----------------------------------------------------------------------------
(* The CSV export of the table components (exportToCSV).                   *)

\* the characters of the column names and units this model writes as strings
Chars(s) ==
    CASE s = "Time - hrs" -> <<"T", "i", "m", "e", " ", "-", " ", "h", "r", "s">>
      [] s = "hrs" -> <<"h", "r", "s">>
      [] s = "Frame Lube Oil - Press" -> <<"F", "r", "a", "m", "e", " ", "L", "u", "b", "e", " ", "O", "i", "l", " ", "-", " ", "P", "r", "e", "s", "s">>
      [] s = "Kg/cm2" -> <<"K", "g", "/", "c", "m", "2">>
      [] s = "Frame Lube Oil - Temp" -> <<"F", "r", "a", "m", "e", " ", "L", "u", "b", "e", " ", "O", "i", "l", " ", "-", " ", "T", "e", "m", "p">>
      [] s = "degC" -> <<"d", "e", "g", "C">>
      [] s = "Frame Lube Oil - Oil Filter dP" -> <<"F", "r", "a", "m", "e", " ", "L", "u", "b", "e", " ", "O", "i", "l", " ", "-", " ", "O", "i", "l", " ", "F", "i", "l", "t", "e", "r", " ", "d", "P">>
      [] s = "" -> <<>>
      [] s = "Frame Lube Oil - Level" -> <<"F", "r", "a", "m", "e", " ", "L", "u", "b", "e", " ", "O", "i", "l", " ", "-", " ", "L", "e", "v", "e", "l">>
      [] s = "%" -> <<"%">>
      [] s = "Frame Bearing Temp - CW Out Temp" -> <<"F", "r", "a", "m", "e", " ", "B", "e", "a", "r", "i", "n", "g", " ", "T", "e", "m", "p", " ", "-", " ", "C", "W", " ", "O", "u", "t", " ", "T", "e", "m", "p">>
      [] s = "Frame Bearing Temp - BRG #1" -> <<"F", "r", "a", "m", "e", " ", "B", "e", "a", "r", "i", "n", "g", " ", "T", "e", "m", "p", " ", "-", " ", "B", "R", "G", " ", "#", "1">>
      [] s = "Frame Bearing Temp - BRG #2" -> <<"F", "r", "a", "m", "e", " ", "B", "e", "a", "r", "i", "n", "g", " ", "T", "e", "m", "p", " ", "-", " ", "B", "R", "G", " ", "#", "2">>
      [] s = "Frame Bearing Temp - BRG #3" -> <<"F", "r", "a", "m", "e", " ", "B", "e", "a", "r", "i", "n", "g", " ", "T", "e", "m", "p", " ", "-", " ", "B", "R", "G", " ", "#", "3">>
      [] s = "Frame Bearing Temp - BRG #4" -> <<"F", "r", "a", "m", "e", " ", "B", "e", "a", "r", "i", "n", "g", " ", "T", "e", "m", "p", " ", "-", " ", "B", "R", "G", " ", "#", "4">>
      [] s = "1st Stage Cylinder - Suction Press" -> <<"1", "s", "t", " ", "S", "t", "a", "g", "e", " ", "C", "y", "l", "i", "n", "d", "e", "r", " ", "-", " ", "S", "u", "c", "t", "i", "o", "n", " ", "P", "r", "e", "s", "s">>
      [] s = "1st Stage Cylinder - Suction Temp" -> <<"1", "s", "t", " ", "S", "t", "a", "g", "e", " ", "C", "y", "l", "i", "n", "d", "e", "r", " ", "-", " ", "S", "u", "c", "t", "i", "o", "n", " ", "T", "e", "m", "p">>
      [] s = "1st Stage Cylinder - Discharge Press" -> <<"1", "s", "t", " ", "S", "t", "a", "g", "e", " ", "C", "y", "l", "i", "n", "d", "e", "r", " ", "-", " ", "D", "i", "s", "c", "h", "a", "r", "g", "e", " ", "P", "r", "e", "s", "s">>
      [] s = "1st Stage Cylinder - Discharge Temp" -> <<"1", "s", "t", " ", "S", "t", "a", "g", "e", " ", "C", "y", "l", "i", "n", "d", "e", "r", " ", "-", " ", "D", "i", "s", "c", "h", "a", "r", "g", "e", " ", "T", "e", "m", "p">>
      [] s = "2nd Stage Cylinder - Suction Press" -> <<"2", "n", "d", " ", "S", "t", "a", "g", "e", " ", "C", "y", "l", "i", "n", "d", "e", "r", " ", "-", " ", "S", "u", "c", "t", "i", "o", "n", " ", "P", "r", "e", "s", "s">>
      [] s = "2nd Stage Cylinder - Suction Temp" -> <<"2", "n", "d", " ", "S", "t", "a", "g", "e", " ", "C", "y", "l", "i", "n", "d", "e", "r", " ", "-", " ", "S", "u", "c", "t", "i", "o", "n", " ", "T", "e", "m", "p">>
      [] s = "2nd Stage Cylinder - Discharge Press" -> <<"2", "n", "d", " ", "S", "t", "a", "g", "e", " ", "C", "y", "l", "i", "n", "d", "e", "r", " ", "-", " ", "D", "i", "s", "c", "h", "a", "r", "g", "e", " ", "P", "r", "e", "s", "s">>
      [] s = "2nd Stage Cylinder - Discharge Temp" -> <<"2", "n", "d", " ", "S", "t", "a", "g", "e", " ", "C", "y", "l", "i", "n", "d", "e", "r", " ", "-", " ", "D", "i", "s", "c", "h", "a", "r", "g", "e", " ", "T", "e", "m", "p">>
      [] s = "After Cooler Separator - Lubricator" -> <<"A", "f", "t", "e", "r", " ", "C", "o", "o", "l", "e", "r", " ", "S", "e", "p", "a", "r", "a", "t", "o", "r", " ", "-", " ", "L", "u", "b", "r", "i", "c", "a", "t", "o", "r">>
      [] s = "After Cooler Separator - Pressure" -> <<"A", "f", "t", "e", "r", " ", "C", "o", "o", "l", "e", "r", " ", "S", "e", "p", "a", "r", "a", "t", "o", "r", " ", "-", " ", "P", "r", "e", "s", "s", "u", "r", "e">>
      [] s = "After Cooler Separator - Temp" -> <<"A", "f", "t", "e", "r", " ", "C", "o", "o", "l", "e", "r", " ", "S", "e", "p", "a", "r", "a", "t", "o", "r", " ", "-", " ", "T", "e", "m", "p">>
      [] s = "After Cooler Separator - Operating" -> <<"A", "f", "t", "e", "r", " ", "C", "o", "o", "l", "e", "r", " ", "S", "e", "p", "a", "r", "a", "t", "o", "r", " ", "-", " ", "O", "p", "e", "r", "a", "t", "i", "n", "g">>
      [] s = "Cooling Water - Level" -> <<"C", "o", "o", "l", "i", "n", "g", " ", "W", "a", "t", "e", "r", " ", "-", " ", "L", "e", "v", "e", "l">>
      [] s = "Cooling Water - Press" -> <<"C", "o", "o", "l", "i", "n", "g", " ", "W", "a", "t", "e", "r", " ", "-", " ", "P", "r", "e", "s", "s">>
      [] s = "Cooling Water - Temp" -> <<"C", "o", "o", "l", "i", "n", "g", " ", "W", "a", "t", "e", "r", " ", "-", " ", "T", "e", "m", "p">>
      [] s = "Cooling Water - Motor Amp" -> <<"C", "o", "o", "l", "i", "n", "g", " ", "W", "a", "t", "e", "r", " ", "-", " ", "M", "o", "t", "o", "r", " ", "A", "m", "p">>
      [] s = "A" -> <<"A">>
      [] s = "Cylinder CW Out Temp - Cyl #1" -> <<"C", "y", "l", "i", "n", "d", "e", "r", " ", "C", "W", " ", "O", "u", "t", " ", "T", "e", "m", "p", " ", "-", " ", "C", "y", "l", " ", "#", "1">>
      [] s = "Cylinder CW Out Temp - Cyl #2" -> <<"C", "y", "l", "i", "n", "d", "e", "r", " ", "C", "W", " ", "O", "u", "t", " ", "T", "e", "m", "p", " ", "-", " ", "C", "y", "l", " ", "#", "2">>
      [] s = "Cylinder CW Out Temp - Cyl #3" -> <<"C", "y", "l", "i", "n", "d", "e", "r", " ", "C", "W", " ", "O", "u", "t", " ", "T", "e", "m", "p", " ", "-", " ", "C", "y", "l", " ", "#", "3">>
      [] s = "Cylinder CW Out Temp - Cyl #4" -> <<"C", "y", "l", "i", "n", "d", "e", "r", " ", "C", "W", " ", "O", "u", "t", " ", "T", "e", "m", "p", " ", "-", " ", "C", "y", "l", " ", "#", "4">>
      [] s = "Control Valve Position - %" -> <<"C", "o", "n", "t", "r", "o", "l", " ", "V", "a", "l", "v", "e", " ", "P", "o", "s", "i", "t", "i", "o", "n", " ", "-", " ", "%">>
      [] s = "Engine Speed - RPM" -> <<"E", "n", "g", "i", "n", "e", " ", "S", "p", "e", "e", "d", " ", "-", " ", "R", "P", "M">>
      [] s = "RPM" -> <<"R", "P", "M">>
      [] s = "Engine Load - %" -> <<"E", "n", "g", "i", "n", "e", " ", "L", "o", "a", "d", " ", "-", " ", "%">>
      [] s = "Instrument Air Pressure - Press" -> <<"I", "n", "s", "t", "r", "u", "m", "e", "n", "t", " ", "A", "i", "r", " ", "P", "r", "e", "s", "s", "u", "r", "e", " ", "-", " ", "P", "r", "e", "s", "s">>
      [] s = "Gas Flow - Sm3/Hr" -> <<"G", "a", "s", " ", "F", "l", "o", "w", " ", "-", " ", "S", "m", "3", "/", "H", "r">>
      [] s = "Sm3/Hr" -> <<"S", "m", "3", "/", "H", "r">>
      [] s = "reportDate" -> <<"r", "e", "p", "o", "r", "t", "D", "a", "t", "e">>

\* pieces.join(sep)
RECURSIVE JoinWith(_, _)
JoinWith(pieces, sep) ==
    IF pieces = <<>> THEN <<>>
    ELSE IF Len(pieces) = 1 THEN pieces[1]
         ELSE pieces[1] \o <<sep>> \o JoinWith(Tail(pieces), sep)

\* s.split(sep)
RECURSIVE SplitOn(_, _)
SplitOn(s, sep) ==
    LET breaks == {i \in 1..Len(s) : s[i] = sep}
    IN  IF breaks = {} THEN <<s>>
        ELSE LET i == CHOOSE j \in breaks : \A k \in breaks : j <= k
             IN  <<SubSeq(s, 1, i - 1)>> \o SplitOn(SubSeq(s, i + 1, Len(s)), sep)

\* whether a key is an array index: "0", or digits that do not start with 0
IsIndexKey(name) ==
    /\ name # <<>>
    /\ \A i \in 1..Len(name) : IsDigit(name[i])
    /\ Len(name) > 1 => name[1] # "0"

\* the number an index key denotes
RECURSIVE KeyNumber(_)
KeyNumber(name) ==
    IF name = <<>> THEN 0
    ELSE 10 * KeyNumber(SubSeq(name, 1, Len(name) - 1))
             + (CHOOSE d \in 0..9 : IntToChars(d) = <<name[Len(name)]>>)

\* the index keys among names, in ascending order of their numbers
RECURSIVE IndexKeysAscending(_)
IndexKeysAscending(names) ==
    IF names = {} THEN <<>>
    ELSE LET least == CHOOSE n \in names :
                          \A m \in names : KeyNumber(n) <= KeyNumber(m)
         IN  <<least>> \o IndexKeysAscending(names \ {least})

\* Object.keys(parameters) of the generic component: the index keys in
\* ascending order, then the other keys in the order they were first set
genericObjectKeys(parameters) ==
    LET names == [i \in 1..Len(parameters) |-> parameters[i].name]
    IN  IndexKeysAscending({names[i] : i \in {j \in 1..Len(names) :
                                                 IsIndexKey(names[j])}})
            \o SelectSeq(names, LAMBDA n : ~IsIndexKey(n))

\* Object.keys(parameters) of the calibrated component, whose keys are column
\* names: the keys in the order they were first set
compressorObjectKeys(parameters) ==
    [i \in 1..Len(parameters) |-> parameters[i].name]

\* keys.forEach(param => allParameters.add(param)): a Set keeps the order in
\* which its members were first added
RECURSIVE addAll(_, _)
addAll(allParameters, keys) ==
    IF keys = <<>> THEN allParameters
    ELSE addAll(IF \E i \in 1..Len(allParameters) : allParameters[i] = Head(keys)
                THEN allParameters
                ELSE Append(allParameters, Head(keys)),
                Tail(keys))

RECURSIVE genericAllParameters(_, _)
genericAllParameters(allParameters, wellData) ==
    IF wellData = <<>> THEN allParameters
    ELSE genericAllParameters(
             addAll(allParameters, genericObjectKeys(Head(wellData).parameters)),
             Tail(wellData))

RECURSIVE compressorAllParameters(_, _)
compressorAllParameters(allParameters, wellData) ==
    IF wellData = <<>> THEN allParameters
    ELSE compressorAllParameters(
             addAll(allParameters, compressorObjectKeys(Head(wellData).parameters)),
             Tail(wellData))

\* reading.parameters[param], as a sequence of no or one entry
paramData(reading, param) ==
    SelectSeq(reading.parameters, LAMBDA e : e.name = param)

\* the CSV lines of the calibrated component
compressorExportToCSV(table) ==
    LET allParameters == compressorAllParameters(<<>>, table.wellData)
        hierarchicalHeaders ==
            <<<<"T", "i", "m", "e", " ", "(", "h", "r", "s", ")">>>>
                \o [i \in 1..Len(allParameters) |-> Chars(allParameters[i])]
        cell(reading, param) ==
            LET d == paramData(reading, param)
            IN  IF d = <<>> THEN <<>>
                ELSE d[1].value \o (IF d[1].unit # ""
                                    THEN <<" ">> \o Chars(d[1].unit) ELSE <<>>)
        row(reading) ==
            <<reading.timeReading>>
                \o [i \in 1..Len(allParameters) |-> cell(reading, allParameters[i])]
    IN  <<JoinWith(hierarchicalHeaders, ",")>>
            \o [r \in 1..Len(table.wellData) |->
                   JoinWith(row(table.wellData[r]), ",")]

\* the CSV lines of the generic component
genericExportToCSV(table) ==
    LET allParameters == genericAllParameters(<<>>, table.wellData)
        headers ==
            <<<<"W", "e", "l", "l", " ", "N", "a", "m", "e">>, <<"D", "a", "t", "e">>>>
                \o allParameters
        cell(well, param) ==
            LET d == paramData(well, param)
            IN  IF d = <<>> THEN <<>>
                ELSE Trim(d[1].value \o <<" ">> \o d[1].unit)
        row(well) ==
            <<well.wellName, Chars(well.date)>>
                \o [i \in 1..Len(allParameters) |-> cell(well, allParameters[i])]
    IN  <<JoinWith(headers, ",")>>
            \o [r \in 1..Len(table.wellData) |-> JoinWith(row(table.wellData[r]), ",")]

----------------------------------------------------------------------------
(* The components: one upload, from processFile / processImage to the end  *)
(* of its handler.                                                         *)

Null == "null"

NoTable == [isNull |-> TRUE, headers |-> <<>>, wellData |-> <<>>]

Variants == {"compressor", "generic", "line"}

\* a runOCROnFile that throws when the table has no readings
compressorRunOCRThrowOnEmpty(data) ==
    LET parsed == compressorParseTableData(data)
    IN  IF parsed.table.wellData = <<>>
        THEN [error |-> "Failed to process file: Image processing failed: Error: No data found",
              table |-> NoTable, data |-> <<>>, fallback |-> parsed.fallback,
              rows |-> <<>>, set |-> FALSE]
        ELSE [error |-> Null, table |-> parsed.table, data |-> <<>>,
              fallback |-> parsed.fallback, rows |-> <<>>, set |-> TRUE]

\* what follows `await recognize` in runOCROnFile of the calibrated
\* component and in the handlers that called it
compressorRunOCR(data) ==
    LET parsed == compressorParseTableData(data)
    IN  [error |-> Null, table |-> parsed.table, data |-> <<>>,
         fallback |-> parsed.fallback, rows |-> <<>>, set |-> TRUE]

\* the same of the generic component: runOCROnFile throws on an empty text,
\* processImageFile wraps the error and processFile sets it
genericRunOCR(data) ==
    IF data.text = <<>>
    THEN [error |-> "Failed to process file: Image processing failed: Error: No text was extracted from the image",
          table |-> NoTable, data |-> <<>>, fallback |-> FALSE, rows |-> <<>>,
          set |-> FALSE]
    ELSE LET parsed == genericParseTableData(data)
         IN  [error |-> Null, table |-> parsed.table, data |-> <<>>,
              fallback |-> parsed.fallback, rows |-> parsed.rows, set |-> TRUE]

\* what follows `await recognize` in processImage of the line-based component
lineProcessImage(data) ==
    IF data.text = <<>>
    THEN [error |-> "Failed to process image: No text was extracted from the image",
          table |-> NoTable, data |-> <<>>, fallback |-> FALSE, rows |-> <<>>,
          set |-> FALSE]
    ELSE [error |-> Null, table |-> NoTable, data |-> parseOilFieldData(data),
          fallback |-> FALSE, rows |-> <<>>, set |-> TRUE]

\* the state of an OCR component after construction
OcrConstructed ==
    /\ pc = "idle"
    /\ ocrData = NoData
    /\ isProcessing = FALSE
    /\ error = Null
    /\ extractedTable = NoTable
    /\ extractedData = <<>>
    /\ recognizeCalls = 0
    /\ fallbackRan = FALSE
    /\ lastRows = <<>>
    /\ csv = <<>>

Init ==
    /\ variant \in Variants
    /\ OcrConstructed
    /\ ServerAtRest
    /\ UploadAtRest
    /\ RetryAtRest
    /\ ModalAtRest
    /\ WorkflowAtRest

\* processFile (processImage in the line-based component) up to its
\* `await workerRef.current.recognize(...)`
ProcessFile ==
    /\ pc = "idle"
    /\ pc' = "ocr"
    /\ isProcessing' = TRUE
    /\ error' = Null
    /\ recognizeCalls' = recognizeCalls + 1
    /\ UNCHANGED <<variant, ocrData, extractedTable, extractedData,
                   fallbackRan, lastRows, csv>>
    /\ UNCHANGED outsideOcr

\* the OCR engine answers with data: the rest of the handler, to its finally
Finish(data, out) ==
    /\ pc' = "done"
    /\ ocrData' = data
    /\ isProcessing' = FALSE
    /\ error' = out.error
    /\ extractedTable' = IF out.set /\ variant # "line" THEN out.table
                         ELSE extractedTable
    /\ extractedData' = IF out.set /\ variant = "line" THEN out.data
                        ELSE extractedData
    /\ fallbackRan' = out.fallback
    /\ lastRows' = out.rows
    /\ UNCHANGED <<variant, recognizeCalls, csv>>
    /\ UNCHANGED outsideOcr

RecognizeResolves ==
    /\ pc = "ocr"
    /\ \E data \in Inputs(variant) :
          \/ variant = "compressor" /\ Finish(data, compressorRunOCR(data))
          \/ variant = "generic" /\ Finish(data, genericRunOCR(data))
          \/ variant = "line" /\ Finish(data, lineProcessImage(data))

\* the OCR engine fails: the catch of the handler sets the error
RecognizeRejects ==
    /\ pc = "ocr"
    /\ pc' = "failed"
    /\ isProcessing' = FALSE
    /\ error' = "Failed to process: OCR engine error"
    /\ UNCHANGED <<variant, ocrData, extractedTable, extractedData,
                   recognizeCalls, fallbackRan, lastRows, csv>>
    /\ UNCHANGED outsideOcr

\* exportToCSV of a table component: `if (!extractedTable) return`, then the
\* lines of the file it downloads
ExportToCSV ==
    /\ pc = "done"
    /\ ~extractedTable.isNull
    /\ \/ variant = "compressor" /\ csv' = compressorExportToCSV(extractedTable)
       \/ variant = "generic" /\ csv' = genericExportToCSV(extractedTable)
    /\ UNCHANGED <<variant, pc, ocrData, isProcessing, error, extractedTable,
                   extractedData, recognizeCalls, fallbackRan, lastRows>>
    /\ UNCHANGED outsideOcr

Next == ProcessFile \/ RecognizeResolves \/ RecognizeRejects \/ ExportToCSV

Spec == Init /\ [][Next]_vars


----------------------------------------------------------------------------
(* The claims.                                                             *)

Done == pc = "done"

\* the readings of the displayed table, as a set
Readings == {extractedTable.wellData[i] : i \in 1..Len(extractedTable.wellData)}

ParametersOf(reading) ==
    {reading.parameters[i] : i \in 1..Len(reading.parameters)}

\* C1: every reading the calibrated extractor emits has at least 5 entries in
\* its parameters mapping.
C1_AtLeastFiveParameters ==
    (Done /\ variant = "compressor" /\ ~fallbackRan)
        => \A r \in Readings : Len(r.parameters) >= 5

\* C2: in the calibrated component, when the calibrated extractor yields at
\* least one reading for a page, parseTableData returns exactly those readings
\* and the fallback parser is not run.
C2_FallbackOnlyWhenPrimaryEmpty ==
    (Done /\ variant = "compressor"
          /\ specializedGasCompressorExtraction(ocrData) # <<>>)
        => /\ ~fallbackRan
           /\ extractedTable.wellData = specializedGasCompressorExtraction(ocrData)

\* C2's case: the page has words that make a reading and a text the fallback
\* parser would read too
C2_Witness ==
    /\ Done /\ variant = "compressor"
    /\ specializedGasCompressorExtraction(ocrData) # <<>>
    /\ enhancedFallbackParsing(ocrData, "reportDate").wellData # <<>>
    /\ ~fallbackRan

\* what the table assembler of the mounted component yields for a page
AssemblerReadings(data) ==
    IF variant = "compressor" THEN specializedGasCompressorExtraction(data)
    ELSE genericParseTableData(data).table.wellData

\* C3: in every table-parsing variant, when the table assembler yields no
\* reading for a page whose text is not empty, the fallback parser is run on
\* the text and its readings are the result.
C3_FallbackRunsWhenPrimaryEmpty ==
    (Done /\ variant \in {"compressor", "generic"}
          /\ ocrData.text # <<>> /\ AssemblerReadings(ocrData) = <<>>)
        => /\ fallbackRan
           /\ extractedTable.wellData
                  = enhancedFallbackParsing(ocrData, "reportDate").wellData

Y0s(row) == {row[i].bbox.y0 : i \in 1..Len(row)}

Spread(row) ==
    (CHOOSE a \in Y0s(row) : \A b \in Y0s(row) : a >= b)
        - (CHOOSE a \in Y0s(row) : \A b \in Y0s(row) : a <= b)

\* C4 as stated: every row of the row clusterer has
\* max(bbox.y0) - min(bbox.y0) < rowTolerance.
C4_RowSpreadBelowTolerance ==
    (Done /\ variant = "generic")
        => \A r \in 1..Len(lastRows) : Spread(lastRows[r]) < rowTolerance

\* C4 as amended: in every row of the row clusterer, taken in the order of
\* bbox.y0, each token lies less than rowTolerance below the token before it.
C4_NeighboursBelowTolerance ==
    (Done /\ variant = "generic")
        => \A r \in 1..Len(lastRows) :
              LET byY == StableSort(lastRows[r], "y0")
              IN  \A k \in 1..(Len(byY) - 1) :
                     byY[k + 1].bbox.y0 - byY[k].bbox.y0 < rowTolerance

\* C4's case: a row of three or more tokens that drifts by rowTolerance or more
C4_Witness ==
    /\ Done /\ variant = "generic"
    /\ \E r \in 1..Len(lastRows) :
          Len(lastRows[r]) >= 3 /\ Spread(lastRows[r]) >= rowTolerance

\* C5: every ParameterReading any extractor emits has 0 <= confidence <= 1
\* (confidences are in thousandths).
C5_ConfidenceBounds ==
    Done => /\ \A r \in Readings : \A p \in ParametersOf(r) :
                  p.confidence >= 0 /\ p.confidence <= 1000
            /\ \A i \in 1..Len(extractedData) :
                  extractedData[i].confidence >= 0
                      /\ extractedData[i].confidence <= 1000

\* the tokens "14:30", "2.1" and "95" of the end-to-end scenario
ScenarioWords == SubList(PageWords, {1, 2, 4})

\* C6: for the tokens of the end-to-end scenario the pipeline yields exactly
\* one reading, with rowIdentifier "14:30", Frame Lube Oil - Press "2.1" and
\* Frame Lube Oil - Temp "95".
C6_EndToEndScenario ==
    (Done /\ variant = "compressor" /\ ocrData.hasWords
          /\ ocrData.words = ScenarioWords)
        => /\ Len(extractedTable.wellData) = 1
           /\ extractedTable.wellData[1].timeReading = <<"1", "4", ":", "3", "0">>
           /\ \E p \in ParametersOf(extractedTable.wellData[1]) :
                 p.name = "Frame Lube Oil - Press" /\ p.value = <<"2", ".", "1">>
           /\ \E p \in ParametersOf(extractedTable.wellData[1]) :
                 p.name = "Frame Lube Oil - Temp" /\ p.value = <<"9", "5">>

\* C7: in every component, when the OCR engine returns an empty text the run
\* ends with the error set and no table (or data) produced, after one OCR call.
C7_EmptyTextIsHardFailure ==
    (Done /\ ocrData.text = <<>>)
        => /\ error # Null
           /\ extractedTable.isNull
           /\ extractedData = <<>>
           /\ recognizeCalls = 1

\* C8: for an OCR result whose text is not empty, whatever its words, table
\* parsing ends with a table and no error; when the table assembler and the
\* fallback parser both find nothing the table has no readings.
C8_OnlyNoTextIsAnError ==
    (Done /\ variant \in {"compressor", "generic"} /\ ocrData.text # <<>>)
        => /\ error = Null
           /\ ~extractedTable.isNull
           /\ (/\ AssemblerReadings(ocrData) = <<>>
               /\ enhancedFallbackParsing(ocrData, "reportDate").wellData = <<>>)
                 => extractedTable.wellData = <<>>

\* C8's case: words that make no reading and a text the fallback parser finds
\* nothing in
C8_Witness ==
    /\ Done /\ variant = "compressor"
    /\ ocrData.text # <<>> /\ wordsOf(ocrData) # <<>>
    /\ fallbackRan
    /\ extractedTable.wellData = <<>> /\ ~extractedTable.isNull
    /\ error = Null

\* the lines the fallback parser read, trimmed
FallbackLinesRead == [i \in 1..Len(textLines(ocrData)) |-> Trim(textLines(ocrData)[i])]

\* whether the fallback parser made a reading of line idx (from 0)
LineYieldsReading(idx) == \E r \in Readings : r.id = <<"fallback", idx>>

FallbackDone == Done /\ variant = "compressor" /\ fallbackRan

\* C9 as stated: a line yields a reading exactly when it has a time match and
\* at least 3 numeric substrings, or at least 8 numeric substrings and no time
\* match.
C9_LineQualifies ==
    FallbackDone
        => \A i \in 1..Len(FallbackLinesRead) :
              LET line == FallbackLinesRead[i]
                  n    == Len(MatchAllNumbers(line, 1))
              IN  LineYieldsReading(i - 1)
                      <=> \/ timeMatch(line) # <<>> /\ n >= 3
                          \/ timeMatch(line) = <<>> /\ n >= 8

\* C9 as amended: a line yields a reading exactly when it has a time match and
\* at least 4 numeric substrings (the first is dropped as the time value and 3
\* parameters must remain), or at least 8 numeric substrings and no time match.
C9_LineQualifiesAmended ==
    FallbackDone
        => \A i \in 1..Len(FallbackLinesRead) :
              LET line == FallbackLinesRead[i]
                  n    == Len(MatchAllNumbers(line, 1))
              IN  LineYieldsReading(i - 1)
                      <=> \/ timeMatch(line) # <<>> /\ n >= 4
                          \/ timeMatch(line) = <<>> /\ n >= 8

\* C9's case: the fallback parser has read a timed line of exactly 4 numeric
\* substrings, the fewest that leave 3 parameters, and made a reading of it.
C9_Witness ==
    /\ FallbackDone
    /\ \E i \in 1..Len(FallbackLinesRead) :
          /\ timeMatch(FallbackLinesRead[i]) # <<>>
          /\ Len(MatchAllNumbers(FallbackLinesRead[i], 1)) = 4
          /\ LineYieldsReading(i - 1)

\* the numeric substrings of a line that follow its time identifier
NumbersAfterIdentifier(line) ==
    LET i == timeMatchStart(line)
    IN  MatchAllNumbers(SubSeq(line, i + TimeLenAt(line, i), Len(line)), 1)

\* C10: in a reading the fallback parser makes of a line with a time
\* identifier, the Nth parameter is the Nth column after the time column and
\* holds the Nth number after the identifier.
C10_IdentifierNotAParameter ==
    FallbackDone
        => \A r \in Readings :
              LET line  == FallbackLinesRead[r.id[2] + 1]
                  after == NumbersAfterIdentifier(line)
              IN  timeMatch(line) # <<>>
                    => \A n \in 1..Len(r.parameters) :
                          /\ n <= Len(after)
                          /\ r.parameters[n].name
                                 = FullParamName(GAS_COMPRESSOR_COLUMNS[n + 1])
                          /\ r.parameters[n].value = NumToString(after[n])

\* C11: in the generic table component no emitted reading has only 2
\* populated parameters (the generic minimum is 3).
C11_NoTwoParameterReading ==
    (Done /\ variant = "generic")
        => \A r \in Readings : Len(r.parameters) # 2

\* the readings the calibrated extractor made, when they are the result
CalibratedDone == Done /\ variant = "compressor" /\ ~fallbackRan

\* the quality penalty of a cell in tenths: 0.9 for a numeric match, 0.8 for
\* a status indicator
qualityPenalty(word) ==
    IF MatchNumber(cleanedText(Trim(word.text))) # <<>> THEN 9 ELSE 8

\* C12: every cell the calibrated assembler emits has the confidence
\* (token confidence / 100) * quality penalty (here in thousandths).
C12_ConfidenceIsNormalizedTimesPenalty ==
    CalibratedDone
        => \A r \in Readings : \A p \in ParametersOf(r) :
              p.confidence = p.source.confidence * qualityPenalty(p.source)

\* whether a token's text denotes a negative value: a minus sign, then a digit
IsNegativeText(text) ==
    LET t == Trim(text)
    IN  Len(t) >= 2 /\ t[1] = "-" /\ IsDigit(t[2])

\* where the numeric substrings of a line start, left to right
RECURSIVE MatchAllNumberStarts(_, _)
MatchAllNumberStarts(s, i) ==
    IF i > Len(s) THEN <<>>
    ELSE IF IsDigit(s[i])
         THEN <<i>> \o MatchAllNumberStarts(s, NumberEnd(s, i))
         ELSE MatchAllNumberStarts(s, i + 1)

\* where the numbers start that the fallback parser assigns to the
\* parameters of a line, in the order of the parameters
DataNumberStarts(line) ==
    dataNumbersOf(timeMatch(line), MatchAllNumberStarts(line, 1))

\* C13: no emitted parameter is derived from a negative source value: in the
\* calibrated assembler from a token such as "-5", in the fallback parser
\* from a number written with a minus sign.
C13_NoParameterFromNegativeValue ==
    /\ CalibratedDone
         => \A r \in Readings : \A p \in ParametersOf(r) :
               ~IsNegativeText(p.source.text)
    /\ FallbackDone
         => \A r \in Readings :
               LET line   == FallbackLinesRead[r.id[2] + 1]
                   starts == DataNumberStarts(line)
               IN  \A n \in 1..Len(r.parameters) :
                      ~(starts[n] > 1 /\ line[starts[n] - 1] = "-")

\* whether a token's text yields no numeric value: it holds no digit
NoNumericValue(text) == MatchNumber(text) = <<>>

\* the words of the row the calibrated extractor made the reading of
ReadingRowWords(reading) ==
    LET words == wordsOf(ocrData)
        rw    == rowWordsOf(words, timeWords(words)[reading.id[2] + 1])
    IN  {words[rw[k]] : k \in 1..Len(rw)}

\* the cells of the data row the generic assembler made the reading of
ReadingRowCells(reading) ==
    LET row == tableDataRows(lastRows)[reading.id[2] + 1]
    IN  {row[c] : c \in 2..Len(row)}

\* headers[colIndex] || `Parameter ${colIndex}`
HeaderNameOf(headers, colIndex) ==
    IF colIndex < Len(headers) /\ headers[colIndex + 1] # <<>>
    THEN headers[colIndex + 1]
    ELSE <<"P", "a", "r", "a", "m", "e", "t", "e", "r", " ">> \o IntToChars(colIndex)

TableDone == Done /\ variant \in {"compressor", "generic"} /\ ~fallbackRan
                  /\ ~extractedTable.isNull

\* C14 as stated: no parameter of an emitted reading comes from a mapped token
\* whose text yields no numeric value, and no error is raised.
C14_NonNumericOmitted ==
    TableDone
        => /\ error = Null
           /\ \A r \in Readings : \A p \in ParametersOf(r) :
                 ~NoNumericValue(p.source.text)

\* C14 as amended: no error is raised, and a mapped token whose text yields no
\* numeric value and is not blank is kept: its column holds a parameter in
\* the reading, and a parameter that comes from such a token has the token's
\* trimmed text as its value; only a blank token adds nothing.
C14_NonNumericKeptAsText ==
    TableDone
        => /\ error = Null
           /\ \A r \in Readings : \A p \in ParametersOf(r) :
                 NoNumericValue(p.source.text)
                     => p.value = Trim(p.source.text) /\ p.value # <<>>
           /\ variant = "compressor"
                => \A r \in Readings : \A w \in ReadingRowWords(r) :
                      (findColumn(w) # 0 /\ NoNumericValue(w.text)
                                         /\ Trim(w.text) # <<>>)
                          => \E p \in ParametersOf(r) :
                                p.name = FullParamName(
                                             GAS_COMPRESSOR_COLUMNS[findColumn(w)])
           /\ variant = "generic"
                => \A r \in Readings : \A cell \in ReadingRowCells(r) :
                      (NoNumericValue(cell.text) /\ Trim(cell.text) # <<>>)
                          => \E p \in ParametersOf(r) :
                                p.name = normalizeParameterName(
                                    HeaderNameOf(extractedTable.headers, cell.col))

\* C14's case: a reading of the calibrated assembler holds a status indicator
\* and its row held a blank token in a column too
C14_Witness ==
    /\ TableDone /\ variant = "compressor"
    /\ \E r \in Readings :
          /\ \E p \in ParametersOf(r) : NoNumericValue(p.source.text)
          /\ \E w \in ReadingRowWords(r) :
                findColumn(w) # 0 /\ Trim(w.text) = <<>>

\* the columns a token is within tolerance of: those whose expectedXPosition
\* is at most tolerance away from the token's centre (x0 + x1) / 2
ColumnsWithinTolerance(word) ==
    {c \in 1..Len(GAS_COMPRESSOR_COLUMNS) :
        LET col == GAS_COMPRESSOR_COLUMNS[c]
            d   == word.bbox.x0 + word.bbox.x1 - 2 * col.expectedXPosition
        IN  d <= 2 * col.tolerance /\ -d <= 2 * col.tolerance}

\* C15: every parameter of the calibrated assembler comes from a token whose
\* centre is within tolerance of the parameter's column, that column being
\* the first such column in definition order; so a token within tolerance of
\* no column is the source of no parameter.
C15_FirstColumnWithinTolerance ==
    CalibratedDone
        => \A r \in Readings : \A p \in ParametersOf(r) :
              LET hits == ColumnsWithinTolerance(p.source)
              IN  /\ hits # {}
                  /\ \E c \in hits :
                        /\ \A d \in hits : c <= d
                        /\ p.name = FullParamName(GAS_COMPRESSOR_COLUMNS[c])

\* C15's case: a reading holds a parameter of a token within tolerance of two
\* columns, and its row held a token within tolerance of none
C15_Witness ==
    /\ CalibratedDone
    /\ \E r \in Readings :
          /\ \E p \in ParametersOf(r) :
                Cardinality(ColumnsWithinTolerance(p.source)) >= 2
          /\ \E w \in ReadingRowWords(r) : ColumnsWithinTolerance(w) = {}

\* a timestamp HH:MM: one or two hour digits, a colon, two minute digits
IsHHMM(s) ==
    /\ Len(s) \in {4, 5}
    /\ s[Len(s) - 2] = ":"
    /\ \A i \in 1..Len(s) : i # Len(s) - 2 => IsDigit(s[i])

\* a synthetic "Row-N"
IsRowN(s) ==
    /\ Len(s) >= 5
    /\ SubSeq(s, 1, 4) = <<"R", "o", "w", "-">>
    /\ \A i \in 5..Len(s) : IsDigit(s[i])

\* C16: every reading of the calibrated assembler or of the fallback parser
\* has a row identifier that is a timestamp HH:MM or a synthetic "Row-N".
C16_RowIdentifierForm ==
    (Done /\ variant = "compressor")
        => \A r \in Readings : IsHHMM(r.timeReading) \/ IsRowN(r.timeReading)

\* C17: no reading of the generic table component has a row identifier (well
\* name) shorter than 2 characters.
C17_WellNameAtLeastTwoCharacters ==
    (Done /\ variant = "generic")
        => \A r \in Readings : Len(r.wellName) >= 2

\* the text "1,234.5 PSI"
ThousandsText == <<"1", ",", "2", "3", "4", ".", "5", " ", "P", "S", "I">>

\* C18: a cell whose text is "1,234.5 PSI" is read as the value "1234.5" with
\* the unit "PSI".
C18_ThousandSeparatorValue ==
    (Done /\ variant = "generic")
        => \A r \in Readings : \A p \in ParametersOf(r) :
              p.source.text = ThousandsText
                  => /\ p.value = <<"1", "2", "3", "4", ".", "5">>
                     /\ p.unit = <<"P", "S", "I">>

\* the longest token list whose every input order is tried
MaxPermuted == 4

\* the token list in another input order: f is a permutation of its indexes
Reordered(words, f) == [i \in 1..Len(words) |-> words[f[i]]]

\* two tokens at the same place: equal bbox.x0 and equal bbox.y0
SamePlace(a, b) == a.bbox.x0 = b.bbox.x0 /\ a.bbox.y0 = b.bbox.y0

\* whether the order f keeps tokens at the same place in their relative order
KeepsSamePlaceOrder(words, f) ==
    \A i, j \in 1..Len(words) :
        (i < j /\ SamePlace(words[f[i]], words[f[j]])) => f[i] < f[j]

\* the generic component clustered a token list short enough to reorder
ClusterDone ==
    /\ Done /\ variant = "generic" /\ ~extractedTable.isNull
    /\ Len(wordsOf(ocrData)) <= MaxPermuted

\* C19 as stated: the row clusterer yields the same rows, in the same order
\* and with the same order of tokens, for the same tokens in any input order
\* and for the list a previous run left behind.
C19_ClusterAnyOrder ==
    ClusterDone
        => LET words == wordsOf(ocrData)
           IN  /\ clusterRows(StableSort(words, "y0")) = lastRows
               /\ \A f \in Permutations(1..Len(words)) :
                     clusterRows(Reordered(words, f)) = lastRows

\* C19 as amended: the same holds for the list a previous run left behind and
\* for every input order that keeps tokens with equal bbox.x0 and equal
\* bbox.y0 in their relative order.
C19_ClusterOrderUpToSamePlace ==
    ClusterDone
        => LET words == wordsOf(ocrData)
           IN  /\ clusterRows(StableSort(words, "y0")) = lastRows
               /\ \A f \in Permutations(1..Len(words)) :
                     KeepsSamePlaceOrder(words, f)
                         => clusterRows(Reordered(words, f)) = lastRows

\* C19's case: three or more tokens in two or more rows, two of them at the
\* same place
C19_Witness ==
    /\ ClusterDone
    /\ Len(wordsOf(ocrData)) >= 3 /\ Len(lastRows) >= 2
    /\ \E i, j \in 1..Len(wordsOf(ocrData)) :
          i < j /\ SamePlace(wordsOf(ocrData)[i], wordsOf(ocrData)[j])

\* the parameter names the columns of the exported table were made of
ExportedParameters ==
    IF variant = "compressor"
    THEN LET names == compressorAllParameters(<<>>, extractedTable.wellData)
         IN  [i \in 1..Len(names) |-> Chars(names[i])]
    ELSE genericAllParameters(<<>>, extractedTable.wellData)

\* the columns of the header row that precede the parameters: the time in
\* the calibrated component, the well name and the date in the generic one
LeadingColumns == IF variant = "compressor" THEN 1 ELSE 2

\* C20: the header row of an exported CSV, split on commas, gives after its
\* leading columns exactly the parameter names the columns were made of, in
\* the same order.
C20_CsvHeaderRoundTrip ==
    csv # <<>>
        => LET cells == SplitOn(csv[1], ",")
           IN  SubSeq(cells, LeadingColumns + 1, Len(cells)) = ExportedParameters

(***************************************************************************)
(* The Express server.  A path is the sequence of its segments; a segment  *)
(* of a route that starts with ":" is a route parameter.  The layers of an *)
(* app are kept in the order in which the file registers them; each route  *)
(* carries the line of its registration, which identifies its handler.     *)
(* Requests are made to paths under /api, so the static /uploads layer and *)
(* the logging, CORS and body-parsing layers, which all call next(), are   *)
(* not listed.                                                             *)
(***************************************************************************)
Route(m, p, a, l) ==
    [kind |-> "route", method |-> m, path |-> p, auth |-> a, line |-> l]

\* app.use('*', (req, res) => res.status(404)...)
CatchAll(l) ==
    [kind |-> "use", method |-> "*", path |-> <<"*">>, auth |-> FALSE,
     line |-> l]

\* src/backend/server.js
ServerJsLayers ==
    << Route("POST", <<"api", "auth", "login">>, FALSE, 127),
       Route("GET", <<"api", "auth", "profile">>, TRUE, 177),
       Route("GET", <<"api", "data", "dashboard">>, TRUE, 193),
       Route("GET", <<"api", "data", "metrics">>, TRUE, 206),
       Route("POST", <<"api", "data", "field-data">>, TRUE, 244),
       Route("POST", <<"api", "upload", "images">>, TRUE, 265),
       Route("GET", <<"api", "health">>, FALSE, 286),
       Route("POST", <<"api", "field-data">>, TRUE, 314),
       Route("GET", <<"api", "field-data", "reports">>, TRUE, 427),
       Route("GET", <<"api", "field-data", "reports", ":reportId">>, TRUE, 472),
       Route("PUT", <<"api", "field-data", ":dataId">>, TRUE, 542),
       Route("DELETE", <<"api", "field-data", ":dataId">>, TRUE, 581),
       Route("GET", <<"api", "field-data", "stats">>, TRUE, 603),
       Route("POST", <<"api", "field-data", "bulk-approve">>, TRUE, 651),
       Route("GET", <<"api", "test">>, FALSE, 757),
       Route("POST", <<"api", "segment-and-ocr">>, FALSE, 763),
       Route("POST", <<"api", "export-to-excel">>, FALSE, 892),
       Route("GET", <<"api", "download-excel", ":timestamp", ":filename">>, FALSE, 1166),
       Route("GET", <<"api", "exports">>, FALSE, 1227),
       Route("DELETE", <<"api", "exports", ":timestamp">>, FALSE, 1292),
       CatchAll(1335) >>

\* src/unnamed/part_005: the server with the enhanced OCR routes
Part005Layers ==
    << Route("POST", <<"api", "auth", "login">>, FALSE, 102),
       Route("GET", <<"api", "auth", "profile">>, TRUE, 152),
       Route("GET", <<"api", "data", "dashboard">>, TRUE, 168),
       Route("GET", <<"api", "data", "metrics">>, TRUE, 181),
       Route("POST", <<"api", "data", "field-data">>, TRUE, 219),
       Route("POST", <<"api", "upload", "images">>, TRUE, 240),
       Route("GET", <<"api", "health">>, FALSE, 261),
       CatchAll(271),
       Route("POST", <<"api", "field-data">>, TRUE, 298),
       Route("GET", <<"api", "field-data", "reports">>, TRUE, 411),
       Route("GET", <<"api", "field-data", "reports", ":reportId">>, TRUE, 456),
       Route("PUT", <<"api", "field-data", ":dataId">>, TRUE, 526),
       Route("DELETE", <<"api", "field-data", ":dataId">>, TRUE, 565),
       Route("GET", <<"api", "field-data", "stats">>, TRUE, 587),
       Route("POST", <<"api", "field-data", "bulk-approve">>, TRUE, 635),
       Route("POST", <<"api", "field-data", "tabular">>, TRUE, 735),
       Route("GET", <<"api", "field-data", "reports", "enhanced">>, TRUE, 944),
       Route("GET", <<"api", "field-data", "reports", ":reportId", "detailed">>, TRUE, 1041),
       Route("PUT", <<"api", "field-data", "bulk-update">>, TRUE, 1160),
       Route("POST", <<"api", "upload", "enhanced-images">>, TRUE, 1221),
       Route("GET", <<"api", "analytics", "production-trends">>, TRUE, 1266),
       Route("GET", <<"api", "field-data", "validation-report", ":reportId">>, TRUE, 1362),
       Route("GET", <<"api", "fields-wells">>, TRUE, 1447),
       Route("GET", <<"api", "field-data", "enhanced-stats">>, TRUE, 1478),
       Route("GET", <<"api", "field-data", "export", ":reportId">>, TRUE, 1632) >>

\* src/unnamed/part_006: the server with the OCR data routes
Part006Layers ==
    << Route("POST", <<"api", "auth", "login">>, FALSE, 78),
       Route("GET", <<"api", "auth", "profile">>, TRUE, 128),
       Route("GET", <<"api", "data", "dashboard">>, TRUE, 144),
       Route("GET", <<"api", "data", "metrics">>, TRUE, 157),
       Route("POST", <<"api", "data", "field-data">>, TRUE, 195),
       Route("POST", <<"api", "upload", "images">>, TRUE, 216),
       Route("GET", <<"api", "health">>, FALSE, 237),
       CatchAll(247),
       Route("POST", <<"api", "field-data">>, TRUE, 274),
       Route("GET", <<"api", "field-data", "reports">>, TRUE, 387),
       Route("GET", <<"api", "field-data", "reports", ":reportId">>, TRUE, 432),
       Route("PUT", <<"api", "field-data", ":dataId">>, TRUE, 502),
       Route("DELETE", <<"api", "field-data", ":dataId">>, TRUE, 541),
       Route("GET", <<"api", "field-data", "stats">>, TRUE, 563),
       Route("POST", <<"api", "field-data", "bulk-approve">>, TRUE, 611) >>

ServerFiles == {"server.js", "part_005", "part_006"}

Layers(file) ==
    CASE file = "server.js" -> ServerJsLayers
      [] file = "part_005" -> Part005Layers
      [] file = "part_006" -> Part006Layers

\* const users = [{id: 1, ...}, {id: 2, ...}]
UserIds == {1, 2}

IsParam(seg) == seg \in {":reportId", ":dataId", ":timestamp", ":filename"}

\* Express matches a route on the method and on the path, a parameter taking
\* any one segment; the layer of app.use('*') matches every request
Matches(layer, r) ==
    \/ layer.kind = "use"
    \/ /\ layer.method = r.method
       /\ Len(layer.path) = Len(r.path)
       /\ \A i \in 1..Len(r.path) :
             IsParam(layer.path[i]) \/ layer.path[i] = r.path[i]

\* the first layer, in registration order, that matches the request
dispatch(file, r) ==
    LET ls == Layers(file)
        hits == {i \in 1..Len(ls) : Matches(ls[i], r)}
    IN ls[CHOOSE i \in hits : \A j \in hits : i <= j]

\* jwt.verify succeeds on a token signed with the secret; users.find then
\* looks the user up
tokenAccepted(t) == t.present /\ t.signed /\ t.userId \in UserIds

\* the 401 of authenticate, or next()
authenticate(r) == tokenAccepted(r.token)

Answer(status, by, line) ==
    [status |-> status, by |-> by, line |-> line, success |-> status = 200,
     wellsProcessed |-> 0]

\* the wells of extractedData that the loop of the tabular route pushes onto
\* processedWells: a well whose parameters cannot be iterated throws and is
\* skipped by the catch around it
processedWells(wells) ==
    SelectSeq(wells, LAMBDA w : w.hasParameters)

\* POST /api/field-data/tabular, with the database answering
tabularHandler(layer, r) ==
    IF ~r.body.isArray
    THEN [Answer(400, "handler", layer.line) EXCEPT !.success = FALSE]
    ELSE [Answer(200, "handler", layer.line) EXCEPT
              !.wellsProcessed = Len(processedWells(r.body.wells))]

\* POST /api/auth/login
loginHandler(layer, r) ==
    CASE r.body.credentials = "none" -> Answer(400, "handler", layer.line)
      [] r.body.credentials = "wrong" -> Answer(401, "handler", layer.line)
      [] OTHER -> Answer(200, "handler", layer.line)

\* POST /api/export-to-excel: its two validations, then the workflow runs
exportValid(r) ==
    Len(r.body.selectedSegments) > 0 /\ r.body.hasSegmentationResult

IsRoute(layer, m, p) == layer.method = m /\ layer.path = p

\* the response of the handler of a route, and the export directories it
\* leaves; `made` is the directory a successful workflow run creates
handle(layer, r, dir, made) ==
    CASE IsRoute(layer, "POST", <<"api", "auth", "login">>) ->
           [res |-> loginHandler(layer, r), dir |-> dir]
      [] IsRoute(layer, "POST", <<"api", "field-data", "tabular">>) ->
           [res |-> tabularHandler(layer, r), dir |-> dir]
      [] IsRoute(layer, "POST", <<"api", "export-to-excel">>) ->
           IF exportValid(r)
           THEN [res |-> Answer(200, "handler", layer.line),
                 dir |-> dir \cup made]
           ELSE [res |-> Answer(400, "handler", layer.line), dir |-> dir]
      [] IsRoute(layer, "DELETE", <<"api", "exports", ":timestamp">>) ->
           IF r.path[3] \in dir
           THEN [res |-> Answer(200, "handler", layer.line),
                 dir |-> dir \ {r.path[3]}]
           ELSE [res |-> Answer(404, "handler", layer.line), dir |-> dir]
      [] IsRoute(layer, "GET",
                 <<"api", "download-excel", ":timestamp", ":filename">>) ->
           IF r.path[3] \in dir
           THEN [res |-> Answer(200, "handler", layer.line), dir |-> dir]
           ELSE [res |-> Answer(404, "handler", layer.line), dir |-> dir]
      [] OTHER -> [res |-> Answer(200, "handler", layer.line), dir |-> dir]

\* one request through the app: the catch-all answers 404, authenticate
\* answers 401, or the handler of the route runs
serve(file, r, dir, made) ==
    LET layer == dispatch(file, r)
    IN IF layer.kind = "use"
       THEN [res |-> Answer(404, "catchall", layer.line), dir |-> dir]
       ELSE IF layer.auth /\ ~authenticate(r)
       THEN [res |-> Answer(401, "authenticate", layer.line), dir |-> dir]
       ELSE handle(layer, r, dir, made)

(***************************************************************************)
(* Requests.                                                               *)
(***************************************************************************)
MaxWells == 2

Timestamps == {"t1", "t2"}

Methods == {"GET", "POST", "PUT", "DELETE"}

Tokens ==
    {NoToken,
     [present |-> TRUE, signed |-> FALSE, userId |-> 1],
     [present |-> TRUE, signed |-> TRUE, userId |-> 2],
     [present |-> TRUE, signed |-> TRUE, userId |-> 3]}

\* a path a client asks for: a route's path with its parameters filled in
Concrete(path, ts) ==
    [i \in 1..Len(path) |->
        CASE path[i] = ":timestamp" -> ts
          [] path[i] = ":filename" -> "report.xlsx"
          [] IsParam(path[i]) -> "7"
          [] OTHER -> path[i]]

AllLayers ==
    UNION {{Layers(f)[i] : i \in 1..Len(Layers(f))} : f \in ServerFiles}

RoutePaths == {l.path : l \in {x \in AllLayers : x.kind = "route"}}

RequestPaths ==
    {Concrete(p, ts) : p \in RoutePaths, ts \in Timestamps}
        \cup {<<"api", "unknown">>}

TabularPath == <<"api", "field-data", "tabular">>

Well(name, ok) == [well_name |-> name, hasParameters |-> ok]

Wells == {Well("TEST-001", TRUE), Well("TEST-002", FALSE)}

WellLists == UNION {[1..n -> Wells] : n \in 0..MaxWells}

\* the bodies a client sends to a path
Bodies(path) ==
    CASE path = TabularPath ->
           {EmptyBody} \cup
           {[EmptyBody EXCEPT !.isArray = TRUE, !.wells = ws] : ws \in WellLists}
      [] path = <<"api", "export-to-excel">> ->
           {EmptyBody,
            [EmptyBody EXCEPT !.selectedSegments = <<0>>],
            [EmptyBody EXCEPT !.selectedSegments = <<0>>,
                              !.hasSegmentationResult = TRUE]}
      [] path = <<"api", "auth", "login">> ->
           {[EmptyBody EXCEPT !.credentials = c] :
               c \in {"none", "wrong", "right"}}
      [] OTHER -> {EmptyBody}

Requests ==
    UNION {{[method |-> m, path |-> p, token |-> t, body |-> b] :
               m \in Methods, t \in Tokens, b \in Bodies(p)} :
           p \in RequestPaths}

(***************************************************************************)
(* The server as a state machine: one request at a time is received and    *)
(* answered.                                                               *)
(***************************************************************************)
ServerInit ==
    /\ serverFile \in ServerFiles
    /\ req = NoRequest
    /\ res = NoResponse
    /\ exportsDir = {}
    /\ variant = "compressor"
    /\ OcrConstructed
    /\ UploadAtRest
    /\ RetryAtRest
    /\ ModalAtRest
    /\ WorkflowAtRest

\* a client sends a request
Receive ==
    /\ req = NoRequest \/ res # NoResponse
    /\ req' \in Requests
    /\ res' = NoResponse
    /\ UNCHANGED <<serverFile, exportsDir>>
    /\ UNCHANGED outsideServer

\* the app answers it; a workflow started by the export route leaves a new
\* export directory or, when it fails, none
Respond ==
    /\ req # NoRequest
    /\ res = NoResponse
    /\ \E made \in {{}} \cup {{ts} : ts \in Timestamps} :
          LET out == serve(serverFile, req, exportsDir, made)
          IN /\ res' = out.res
             /\ exportsDir' = out.dir
    /\ UNCHANGED <<serverFile, req>>
    /\ UNCHANGED outsideServer

ServerNext == Receive \/ Respond

ServerSpec == ServerInit /\ [][ServerNext]_vars

Answered == req # NoRequest /\ res # NoResponse

\* the registered routes of the running file whose path the request spells
RoutesNamed(file, r) ==
    {l \in {Layers(file)[i] : i \in 1..Len(Layers(file))} :
        /\ l.kind = "route"
        /\ l.method = r.method
        /\ \E ts \in Timestamps : Concrete(l.path, ts) = r.path}

WellFormed(wells) == \A i \in 1..Len(wells) : wells[i].hasParameters

\* C21: an authenticated POST /api/field-data/tabular whose extractedData is
\* an array of well objects is answered 200 with success true and
\* wellsProcessed equal to the number of wells
C21_TabularSaved ==
    (/\ Answered
     /\ req.method = "POST"
     /\ req.path = TabularPath
     /\ tokenAccepted(req.token)
     /\ req.body.isArray
     /\ WellFormed(req.body.wells))
        => /\ res.status = 200
           /\ res.success
           /\ res.wellsProcessed = Len(req.body.wells)

\* the routes the rule leaves open: login and the health and test checks
OpenPaths ==
    {<<"api", "auth", "login">>, <<"api", "health">>, <<"api", "test">>}

HandlerRan == Answered /\ res.by = "handler"

\* the route whose handler answered
AnsweringRoute ==
    CHOOSE l \in {Layers(serverFile)[i] : i \in 1..Len(Layers(serverFile))} :
        l.line = res.line

\* C22: the handler of every endpoint other than login and the health and
\* test checks runs only for a request that carries a valid token of a known
\* user
C22_HandlersBehindAuthentication ==
    (HandlerRan /\ AnsweringRoute.path \notin OpenPaths)
        => tokenAccepted(req.token)

\* C23: a request that names a registered route is answered by that route
\* (its authenticate or its handler), never by the 404 catch-all and never by
\* a parameterized route registered before it
C23_RegisteredRouteReached ==
    Answered =>
        \A l \in RoutesNamed(serverFile, req) :
            res.by # "catchall" /\ res.line = l.line

(***************************************************************************)
(* Overlapping uploads in the generic table component.  A document is an   *)
(* image, a PDF or a file of another type; its pages are what the OCR      *)
(* engine reads from them.  The jobs given to the one OCR worker are       *)
(* answered in the order in which they were given; what a run awaits       *)
(* before it reaches the worker (image preprocessing, PDF conversion) ends *)
(* in any order.                                                           *)
(***************************************************************************)
MaxRuns == 3

PageA == OCRData(<<"a", "b">>, 90, TRUE, TableWords)

PageB == OCRData(<<"a", "b">>, 90, TRUE, NoisyTableWords)

BlankPage == OCRData(<<>>, 0, TRUE, <<>>)

Document(name, type, pages) == [name |-> name, type |-> type, pages |-> pages]

Documents ==
    {Document("sheet.png", "image", <<PageA>>),
     Document("blank.png", "image", <<BlankPage>>),
     Document("report.pdf", "pdf", <<PageB, BlankPage>>),
     Document("empty.pdf", "pdf", <<>>),
     Document("notes.txt", "other", <<>>)}

Run(kind, data, stage) == [kind |-> kind, data |-> data, stage |-> stage]

InFlight(run) == run.stage \in {"preparing", "recognizing"}

\* handleFileUpload: the two checks, then processFile up to its first await
handleFileUpload(doc) ==
    IF doc.type = "other"
    THEN /\ error' = "Please upload an image file (JPG, PNG, GIF) or PDF document"
         /\ UNCHANGED <<isProcessing, extractedTable, uploadVars>>
    ELSE /\ isProcessing' = TRUE
         /\ error' = Null
         /\ fileType' = doc.type
         /\ runs' = Append(runs, Run(doc.type, doc.pages, "preparing"))
         /\ UNCHANGED <<extractedTable, workerQueue, pdfPages>>

\* the Select File button, disabled while isProcessing, and the file input
SelectFile ==
    /\ ~isProcessing
    /\ Len(runs) < MaxRuns
    /\ \E doc \in Documents : handleFileUpload(doc)
    /\ UNCHANGED outsideUpload

\* handleDrop of the upload area
HandleDrop ==
    /\ Len(runs) < MaxRuns
    /\ \E doc \in Documents : handleFileUpload(doc)
    /\ UNCHANGED outsideUpload

\* a page button, shown for a PDF of more than one page and disabled while
\* isProcessing: selectPDFPage up to the recognize call of processOCROnCanvas
SelectPDFPage ==
    /\ ~isProcessing
    /\ fileType = "pdf"
    /\ Len(pdfPages) > 1
    /\ Len(runs) < MaxRuns
    /\ \E pageIndex \in 1..Len(pdfPages) :
          /\ runs' = Append(runs, Run("page", <<pdfPages[pageIndex]>>,
                                      "recognizing"))
          /\ workerQueue' = Append(workerQueue, Len(runs) + 1)
    /\ isProcessing' = TRUE
    /\ error' = Null
    /\ UNCHANGED <<extractedTable, pdfPages, fileType>>
    /\ UNCHANGED outsideUpload

\* a run of processFile gets past preprocessImage or convertPDFToImages: an
\* image or the first page of a PDF goes to the worker; a PDF without pages
\* throws, which ends the run in the catch and finally of processFile
Prepared ==
    \E r \in 1..Len(runs) :
       /\ runs[r].stage = "preparing"
       /\ pdfPages' = IF runs[r].kind = "pdf" THEN runs[r].data ELSE pdfPages
       /\ IF runs[r].data = <<>>
          THEN /\ runs' = [runs EXCEPT ![r].stage = "failed"]
               /\ error' = "Failed to process file: PDF processing failed: Error: No pages found in PDF"
               /\ isProcessing' = FALSE
               /\ UNCHANGED workerQueue
          ELSE /\ runs' = [runs EXCEPT ![r].stage = "recognizing",
                                       ![r].data = <<runs[r].data[1]>>]
               /\ workerQueue' = Append(workerQueue, r)
               /\ UNCHANGED <<error, isProcessing>>
       /\ UNCHANGED <<extractedTable, fileType>>
       /\ UNCHANGED outsideUpload

\* the rest of runOCROnFile or processOCROnCanvas after `await recognize`,
\* then the catch and the finally of the run
finishRun(r, out) ==
    /\ extractedTable' = IF out.set THEN out.table ELSE extractedTable
    /\ error' = IF out.set THEN error ELSE out.error
    /\ runs' = [runs EXCEPT ![r].stage = IF out.set THEN "done" ELSE "failed"]
    /\ workerQueue' = Tail(workerQueue)
    /\ isProcessing' = FALSE
    /\ UNCHANGED <<pdfPages, fileType>>
    /\ UNCHANGED outsideUpload

\* the worker answers its oldest job
Recognized ==
    /\ workerQueue # <<>>
    /\ finishRun(Head(workerQueue),
                 genericRunOCR(runs[Head(workerQueue)].data[1]))

UploadInit ==
    /\ variant = "generic"
    /\ OcrConstructed
    /\ ServerAtRest
    /\ UploadAtRest
    /\ RetryAtRest
    /\ ModalAtRest
    /\ WorkflowAtRest

UploadNext ==
    SelectFile \/ HandleDrop \/ SelectPDFPage \/ Prepared \/ Recognized

UploadSpec == UploadInit /\ [][UploadNext]_vars

RunsInFlight == {r \in 1..Len(runs) : InFlight(runs[r])}

\* C24: isProcessing is true whenever an OCR run is in flight and false once
\* all runs have finished
C24_ProcessingWhileInFlight ==
    isProcessing <=> (RunsInFlight # {})

\* the table of the page a run reads, null when the run fails
ResultOf(run) ==
    IF run.data = <<>> THEN NoTable
    ELSE LET out == genericRunOCR(run.data[1])
         IN IF out.set THEN out.table ELSE NoTable

\* C25: once no run is in flight the displayed table is the result of the
\* most recently requested document or page
C25_TableOfLatestRequest ==
    (runs # <<>> /\ RunsInFlight = {})
        => extractedTable = ResultOf(runs[Len(runs)])

\* the token that anchors a reading of the calibrated extractor: the rowIndex
\* of its id counts the anchors in the order of timeWords
AnchorOf(reading) ==
    LET words == wordsOf(ocrData)
    IN words[timeWords(words)[reading.id[2] + 1]]

\* C26: in the calibrated extractor each token is the value of a parameter of
\* at most one reading, and the anchor token of a reading is not stored as a
\* parameter value of another reading
C26_TokenInOneReading ==
    CalibratedDone =>
        \A r1, r2 \in Readings :
            r1 # r2 =>
                \A q \in ParametersOf(r2) :
                    /\ q.source # AnchorOf(r1)
                    /\ \A p \in ParametersOf(r1) : p.source # q.source

(***************************************************************************)
(* apiUtils.retryApiCall of the API client.  An outcome of apiCall is a    *)
(* value, or the error that handleResponse makes of a response of the      *)
(* server, or the error of a fetch that could not reach the server.        *)
(***************************************************************************)
MaxRetry == 3

BaseDelays == {250, 1000}

RECURSIVE Pow(_, _)
Pow(b, e) == IF e = 0 THEN 1 ELSE b * Pow(b, e - 1)

\* a response that is not ok: its status line and the `error` of its JSON
\* body (<<>> when the body has no such field)
ErrorResponse(status, statusText, bodyError) ==
    [status |-> status, statusText |-> statusText, error |-> bodyError]

\* the responses of the server that are not ok: the two 401 of authenticate,
\* the 403 and the 404 of the export routes (whose bodies carry `message`,
\* not `error`), the 404 of the catch-all and the 500 of the error handler
ErrorResponses ==
    {ErrorResponse(401, <<"U", "n", "a", "u", "t", "h", "o", "r", "i", "z", "e", "d">>, <<"N", "o", " ", "t", "o", "k", "e", "n", " ", "p", "r", "o", "v", "i", "d", "e", "d">>),
     ErrorResponse(401, <<"U", "n", "a", "u", "t", "h", "o", "r", "i", "z", "e", "d">>, <<"I", "n", "v", "a", "l", "i", "d", " ", "t", "o", "k", "e", "n">>),
     ErrorResponse(403, <<"F", "o", "r", "b", "i", "d", "d", "e", "n">>, <<>>),
     ErrorResponse(404, <<"N", "o", "t", " ", "F", "o", "u", "n", "d">>, <<>>),
     ErrorResponse(404, <<"N", "o", "t", " ", "F", "o", "u", "n", "d">>, <<"R", "o", "u", "t", "e", " ", "n", "o", "t", " ", "f", "o", "u", "n", "d">>),
     ErrorResponse(500, <<"I", "n", "t", "e", "r", "n", "a", "l", " ", "S", "e", "r", "v", "e", "r", " ", "E", "r", "r", "o", "r">>, <<"I", "n", "t", "e", "r", "n", "a", "l", " ", "s", "e", "r", "v", "e", "r", " ", "e", "r", "r", "o", "r">>)}

\* new Error(errorData.error || `HTTP ${response.status}: ${response.statusText}`)
handleResponse(response) ==
    [ok |-> FALSE, status |-> response.status,
     message |-> IF response.error # <<>> THEN response.error
                 ELSE <<"H", "T", "T", "P", " ">> \o IntToChars(response.status) \o <<":", " ">>
                          \o response.statusText,
     value |-> "none"]

\* fetch rejects: TypeError('Failed to fetch')
FetchFailed ==
    [ok |-> FALSE, status |-> 0, message |-> <<"F", "a", "i", "l", "e", "d", " ", "t", "o", " ", "f", "e", "t", "c", "h">>,
     value |-> "none"]

Failures == {handleResponse(r) : r \in ErrorResponses} \cup {FetchFailed}

Successes ==
    {[ok |-> TRUE, status |-> 200, message |-> <<>>, value |-> v] :
        v \in {"first", "second"}}

\* the messages after which the catch rethrows at once
notRetried(err) ==
    LET message == toLowerCase(err.message)
    IN \/ Includes(message, <<"u", "n", "a", "u", "t", "h", "o", "r", "i", "z", "e", "d">>)
       \/ Includes(message, <<"f", "o", "r", "b", "i", "d", "d", "e", "n">>)
       \/ Includes(message, <<"n", "o", "t", " ", "f", "o", "u", "n", "d">>)

delayLinear(base, k) == base * (k + 1)

\* baseDelay * Math.pow(2, attempt)
delay(base, k) == base * Pow(2, k)

RetryInit ==
    /\ RetryAtRest
    /\ variant = "compressor"
    /\ OcrConstructed
    /\ ServerAtRest
    /\ UploadAtRest
    /\ ModalAtRest
    /\ WorkflowAtRest

\* retryApiCall(apiCall, maxRetries, baseDelay) up to its first `await apiCall()`
RetryApiCall ==
    /\ retryPc = "idle"
    /\ maxRetries' \in 0..MaxRetry
    /\ baseDelay' \in BaseDelays
    /\ attempt' = 0
    /\ retryPc' = "calling"
    /\ UNCHANGED <<invocations, waits, settled>>
    /\ UNCHANGED outsideRetry

\* apiCall resolves: `return await apiCall()`
ApiCallResolves ==
    /\ retryPc = "calling"
    /\ \E out \in Successes :
          /\ invocations' = Append(invocations, out)
          /\ settled' = out
    /\ retryPc' = "returned"
    /\ UNCHANGED <<maxRetries, baseDelay, attempt, waits>>
    /\ UNCHANGED outsideRetry

\* apiCall rejects: the catch block, to its throw or to its setTimeout
ApiCallRejects ==
    /\ retryPc = "calling"
    /\ \E err \in Failures :
          /\ invocations' = Append(invocations, err)
          /\ IF attempt = maxRetries \/ notRetried(err)
             THEN /\ retryPc' = "thrown"
                  /\ settled' = err
                  /\ UNCHANGED waits
             ELSE /\ retryPc' = "waiting"
                  /\ waits' = Append(waits, delay(baseDelay, attempt))
                  /\ UNCHANGED settled
    /\ UNCHANGED <<maxRetries, baseDelay, attempt>>
    /\ UNCHANGED outsideRetry

\* the timer of the backoff fires: the next turn of the loop
BackoffElapsed ==
    /\ retryPc = "waiting"
    /\ attempt' = attempt + 1
    /\ retryPc' = "calling"
    /\ UNCHANGED <<maxRetries, baseDelay, invocations, waits, settled>>
    /\ UNCHANGED outsideRetry

RetryNext ==
    RetryApiCall \/ ApiCallResolves \/ ApiCallRejects \/ BackoffElapsed

RetrySpec == RetryInit /\ [][RetryNext]_vars

\* C27: apiCall is invoked at most maxRetries + 1 times and never again after
\* an invocation has succeeded; the retry after the k-th failed attempt (k
\* from 0) is preceded by a wait of baseDelay * 2^k; the value returned is
\* that of the successful invocation, and the error thrown is that of the
\* last invocation, all invocations having failed
C27_RetryBackoff ==
    /\ Len(invocations) <= maxRetries + 1
    /\ \A i \in 1..(Len(invocations) - 1) : ~invocations[i].ok
    /\ \A k \in 1..Len(waits) : waits[k] = baseDelay * Pow(2, k - 1)
    /\ Len(waits) = IF retryPc \in {"returned", "thrown"}
                    THEN Len(invocations) - 1
                    ELSE Len(invocations)
    /\ retryPc = "returned" =>
          /\ invocations[Len(invocations)].ok
          /\ settled = invocations[Len(invocations)]
    /\ retryPc = "thrown" =>
          /\ \A i \in 1..Len(invocations) : ~invocations[i].ok
          /\ settled = invocations[Len(invocations)]

\* retryApiCall returns after two failed attempts and two waits
C27_Witness ==
    /\ retryPc = "returned"
    /\ Len(invocations) = 3
    /\ Len(waits) = 2

\* C28: a call that failed because the server answered 401, 403 or 404 is not
\* retried: that invocation is the last one and its error is thrown without
\* a wait
C28_NoRetryOnClientError ==
    \A i \in 1..Len(invocations) :
        invocations[i].status \in {401, 403, 404} =>
            /\ i = Len(invocations)
            /\ retryPc = "thrown"
            /\ settled = invocations[i]

(***************************************************************************)
(* The segmentation preview modal of the gas-compressor component.  A file *)
(* is named by its name; the server finds in an image a number of          *)
(* segments, and the result it returns is kept with the file it was        *)
(* computed from.                                                          *)
(***************************************************************************)
ModalFiles ==
    {[name |-> "sheet1.png", type |-> "image", segments |-> 3],
     [name |-> "sheet2.png", type |-> "image", segments |-> 1],
     [name |-> "scan.pdf", type |-> "pdf", segments |-> 0],
     [name |-> "notes.txt", type |-> "other", segments |-> 0]}

FileNamed(name) == CHOOSE f \in ModalFiles : f.name = name

\* response.data of /api/segment-and-ocr for a file
segmentAndOcr(name) ==
    [isNull |-> FALSE, file |-> name, segments |-> FileNamed(name).segments]

isExporting == pending.kind = "export"

\* isProcessing || isExporting || (segmentationResult && selectedSegments.size === 0)
isButtonDisabled ==
    \/ isProcessing
    \/ isExporting
    \/ (~segmentationResult.isNull /\ selectedSegments = {})

\* handleFileUpload of the gas-compressor component: its checks, then the
\* preview modal opens on the file
OpenPreview ==
    /\ ~showPreviewModal
    /\ \E f \in ModalFiles :
          IF f.type = "other"
          THEN /\ error' = "Please upload an image file (JPG, PNG, GIF) or PDF document"
               /\ UNCHANGED <<showPreviewModal, previewFile>>
          ELSE /\ previewFile' = f.name
               /\ showPreviewModal' = TRUE
               /\ UNCHANGED error
    /\ UNCHANGED <<segmentationResult, selectedSegments, activeTab, pending,
                   isProcessing>>
    /\ UNCHANGED outsideModal

\* the Close button and the Cancel button of the modal
CloseModal ==
    /\ showPreviewModal
    /\ showPreviewModal' = FALSE
    /\ previewFile' = "null"
    /\ segmentationResult' = NoSegmentation
    /\ activeTab' = "original"
    /\ UNCHANGED <<selectedSegments, pending, isProcessing, error>>
    /\ UNCHANGED outsideModal

\* the two tab buttons, shown once there is a segmentation result
SetActiveTab ==
    /\ showPreviewModal
    /\ ~segmentationResult.isNull
    /\ activeTab' \in {"preview", "segments"}
    /\ UNCHANGED <<showPreviewModal, previewFile, segmentationResult,
                   selectedSegments, pending, isProcessing, error>>
    /\ UNCHANGED outsideModal

\* the checkbox of segment i on the segments tab of an image
ToggleSegment ==
    /\ showPreviewModal
    /\ FileNamed(previewFile).type = "image"
    /\ activeTab = "segments"
    /\ \E i \in 0..(segmentationResult.segments - 1) :
          selectedSegments' = IF i \in selectedSegments
                              THEN selectedSegments \ {i}
                              ELSE selectedSegments \cup {i}
    /\ UNCHANGED <<showPreviewModal, previewFile, segmentationResult,
                   activeTab, pending, isProcessing, error>>
    /\ UNCHANGED outsideModal

\* handleSegmentPreview up to its await: with a result and a selection it
\* exports, otherwise it sends the file to be segmented
HandleSegmentPreview ==
    /\ showPreviewModal
    /\ ~isButtonDisabled
    /\ isProcessing' = TRUE
    /\ pending' = IF ~segmentationResult.isNull /\ selectedSegments # {}
                  THEN [kind |-> "export", file |-> previewFile]
                  ELSE [kind |-> "segment", file |-> previewFile]
    /\ UNCHANGED <<showPreviewModal, previewFile, segmentationResult,
                   selectedSegments, activeTab, error>>
    /\ UNCHANGED outsideModal

\* the server answers the segmentation request: the rest of
\* handleSegmentPreview, to its finally
SegmentationResponds ==
    /\ pending.kind = "segment"
    /\ IF FileNamed(pending.file).type = "image"
       THEN /\ segmentationResult' = segmentAndOcr(pending.file)
            /\ activeTab' = "segments"
            /\ UNCHANGED error
       ELSE /\ error' = "Segmentation failed: Unknown error"
            /\ UNCHANGED <<segmentationResult, activeTab>>
    /\ isProcessing' = FALSE
    /\ pending' = NoRequestPending
    /\ UNCHANGED <<showPreviewModal, previewFile, selectedSegments>>
    /\ UNCHANGED outsideModal

\* the server answers the export request: the rest of handleExportToExcel and
\* the finally of handleSegmentPreview
ExportResponds ==
    /\ pending.kind = "export"
    /\ isProcessing' = FALSE
    /\ pending' = NoRequestPending
    /\ UNCHANGED <<showPreviewModal, previewFile, segmentationResult,
                   selectedSegments, activeTab, error>>
    /\ UNCHANGED outsideModal

ModalInit ==
    /\ ModalAtRest
    /\ variant = "compressor"
    /\ OcrConstructed
    /\ ServerAtRest
    /\ UploadAtRest
    /\ RetryAtRest
    /\ WorkflowAtRest

ModalNext ==
    \/ OpenPreview
    \/ CloseModal
    \/ SetActiveTab
    \/ ToggleSegment
    \/ HandleSegmentPreview
    \/ SegmentationResponds
    \/ ExportResponds

ModalSpec == ModalInit /\ [][ModalNext]_vars

\* C29: every index in selectedSegments is an index into the segments of the
\* current segmentationResult, which was computed from the current
\* previewFile; selectedSegments is empty whenever segmentationResult is null
C29_SelectionMatchesResult ==
    IF segmentationResult.isNull
    THEN selectedSegments = {}
    ELSE /\ selectedSegments \subseteq 0..(segmentationResult.segments - 1)
         /\ segmentationResult.file = previewFile

(***************************************************************************)
(* runPythonWorkflow, as the export route calls it: once for every         *)
(* selected segment, one call after the other.  A call spawns the Python   *)
(* process, listens for its close and error events and sets a timer; the   *)
(* promise it returns settles at the first resolve or reject and ignores   *)
(* every later one.                                                        *)
(***************************************************************************)
MaxSegments == 2

\* resolve or reject called on a promise
settle(promise, outcome) == IF promise = "pending" THEN outcome ELSE promise

Workflow(process, promise, timer) ==
    [process |-> process, promise |-> promise, timer |-> timer,
     killedWhen |-> "never"]

\* POST /api/export-to-excel with selectedSegments, past its validations
ExportToExcel ==
    /\ exportPc = "idle"
    /\ exportPc' = "processing"
    /\ segmentsLeft' \in 1..MaxSegments
    /\ UNCHANGED workflows
    /\ UNCHANGED outsideWorkflow

\* the loop of the route reaches the next segment and calls
\* runPythonWorkflow: without workflow.py the promise is rejected at once,
\* otherwise the process is spawned and the timer set
RunPythonWorkflow ==
    /\ exportPc = "processing"
    /\ segmentsLeft > 0
    /\ IF workflows = <<>> THEN TRUE
       ELSE workflows[Len(workflows)].promise # "pending"
    /\ \E workflowExists \in BOOLEAN :
          workflows' = Append(workflows,
              IF workflowExists THEN Workflow("running", "pending", "armed")
              ELSE Workflow("none", "rejected", "unset"))
    /\ segmentsLeft' = segmentsLeft - 1
    /\ UNCHANGED exportPc
    /\ UNCHANGED outsideWorkflow

\* pythonProcess.on('close'): a process that ran to its end exits with code
\* 0 or with another code; one that was killed or could not be started
\* closes without code 0
ProcessCloses ==
    /\ \E w \in 1..Len(workflows) :
          /\ workflows[w].process \in {"running", "killed", "failedToStart"}
          /\ \E code \in {0, 1} :
                /\ code = 0 => workflows[w].process = "running"
                /\ workflows' = [workflows EXCEPT
                       ![w].process = "exited",
                       ![w].promise = settle(@, IF code = 0 THEN "resolved"
                                                ELSE "rejected")]
    /\ UNCHANGED <<exportPc, segmentsLeft>>
    /\ UNCHANGED outsideWorkflow

\* pythonProcess.on('error'): the process could not be started
ProcessError ==
    /\ \E w \in 1..Len(workflows) :
          /\ workflows[w].process = "running"
          /\ workflows[w].promise = "pending"
          /\ workflows[w].timer = "armed"
          /\ workflows' = [workflows EXCEPT
                 ![w].process = "failedToStart",
                 ![w].promise = settle(@, "rejected")]
    /\ UNCHANGED <<exportPc, segmentsLeft>>
    /\ UNCHANGED outsideWorkflow

\* the callback of setTimeout(..., 300000): kill, then reject
TimeoutFires ==
    /\ \E w \in 1..Len(workflows) :
          /\ workflows[w].timer = "armed"
          /\ workflows' = [workflows EXCEPT
                 ![w].timer = "fired",
                 ![w].killedWhen = workflows[w].process,
                 ![w].process = IF @ = "running" THEN "killed" ELSE @,
                 ![w].promise = settle(@, "rejected")]
    /\ UNCHANGED <<exportPc, segmentsLeft>>
    /\ UNCHANGED outsideWorkflow

\* the loop has processed every segment: res.json(...)
ExportAnswered ==
    /\ exportPc = "processing"
    /\ segmentsLeft = 0
    /\ workflows[Len(workflows)].promise # "pending"
    /\ exportPc' = "answered"
    /\ UNCHANGED <<segmentsLeft, workflows>>
    /\ UNCHANGED outsideWorkflow

WorkflowInit ==
    /\ WorkflowAtRest
    /\ variant = "compressor"
    /\ OcrConstructed
    /\ ServerAtRest
    /\ UploadAtRest
    /\ RetryAtRest
    /\ ModalAtRest

WorkflowNext ==
    \/ ExportToExcel
    \/ RunPythonWorkflow
    \/ ProcessCloses
    \/ ProcessError
    \/ TimeoutFires
    \/ ExportAnswered

WorkflowSpec == WorkflowInit /\ [][WorkflowNext]_vars

\* C30: the timeout of runPythonWorkflow acts only on a workflow that is
\* still running: kill is never invoked on a process that has exited or
\* failed to start, and no timer stays set once the process has closed or
\* failed to start
C30_TimeoutOnlyWhileRunning ==
    \A w \in 1..Len(workflows) :
        /\ workflows[w].killedWhen \in {"never", "running"}
        /\ workflows[w].process \in {"exited", "failedToStart"}
              => workflows[w].timer # "armed"

====
